---- MODULE Spec2Model ----
(***************************************************************************)
(* Weather Mate: the forecast aggregator (forecast_processor.py), the      *)
(* response validators (validation.py), the fetch functions (api.py), the  *)
(* search and weather histories, the city comparison and the Get Weather   *)
(* callback of the UI, as state machines.                                  *)
(*                                                                         *)
(* Python values are tagged records: t names the Python type.  A str is a  *)
(* sequence of one-character strings, a dict is a function from its keys   *)
(* to values (a missing key is a key outside the DOMAIN), a list is a      *)
(* sequence of values.                                                     *)
(***************************************************************************)
EXTENDS Integers, Sequences, FiniteSets, TLC

VARIABLES
    forecast_list,   \* process_forecast_data: the argument
    idx,             \* process_forecast_data: position of the for loop (1-based)
    forecast_days,   \* process_forecast_data: the dict date -> ForecastDay, in insertion order
    skipped,         \* indices of the entries the except clause skipped
    pc,              \* "idle", "validate", "rejected", "loop", "done" (returned), "raised" (an
                     \* exception left the call), "viewed", "view raised", or "show: f" while
                     \* show_weather is about to call f
    raised,          \* the exception that left the call, "none" if none
    result,          \* the list process_forecast_data returned
    day,             \* a ForecastDay driven directly through add_hourly
    doc,             \* the document given to a validator
    outcome,         \* what the validator did with doc
    validator,       \* the validator that produced outcome, "none" before
    text,            \* the str a rendering function or get_air_quality returned
    response,        \* what requests.get gave get_air_quality
    first_result,    \* the result of an earlier process_forecast_data call on the same list
    expanded_date,   \* the expanded_date given to create_forecast_view, NotAsked before
    history_data,    \* SearchHistory.history_data: the lists "recent" and "favorites"
    history_call,    \* the last SearchHistory call: its name and its city
    history_budget,  \* how many distinct cities were searched and how many searches repeated one
    weather_history, \* WeatherHistory.history: city -> list of records
    weather_call,    \* the last WeatherHistory call, with what get_history returned
    weather_clock,   \* how many records were added so far: the timestamp of the last one
    cities_data,     \* WeatherComparison.cities_data
    comparison_call, \* the last WeatherComparison call: what it returned and fetched
    report,          \* what show_air_quality_dialog showed, NoCall before
    get_weather_button,  \* state of the Get Weather button: "normal" or "disabled"
    loading_label,   \* text of the loading indicator
    forecast_data,   \* the UI's global forecast_data
    last_weather_data,   \* the UI's global last_weather_data, None before the first success
    show_weather_call    \* the show_weather invocations: how many, the last one's inputs and path

vars == <<forecast_list, idx, forecast_days, skipped, pc, raised, result, day, doc, outcome,
          validator, text, response, first_result, expanded_date, history_data,
          history_call, history_budget, weather_history, weather_call, weather_clock,
          cities_data, comparison_call, report, get_weather_button, loading_label,
          forecast_data, last_weather_data, show_weather_call>>

\* the variables the aggregator, the directly driven day and the coordinate
\* validator leave alone
\* the state of the application objects: the search history and the weather history
historyVars == <<history_data, history_call, history_budget>>

weatherVars == <<weather_history, weather_call, weather_clock>>

comparisonVars == <<cities_data, comparison_call>>

dialogVars == <<report>>

uiVars == <<get_weather_button, loading_label, forecast_data, last_weather_data,
           show_weather_call>>

appVars == <<historyVars, weatherVars, comparisonVars, dialogVars, uiVars>>

restVars == <<text, response, first_result, expanded_date, appVars>>

aggVars == <<forecast_list, idx, forecast_days, skipped, pc, raised, result>>

----------------------------------------------------------------------------
(* Bounds of the model *)

\* longest forecast list given to process_forecast_data
MaxLen == 3

\* most add_hourly calls made on the directly driven ForecastDay
MaxCalls == 3

\* how far around each coordinate limit the sampled lat / lon values reach
CoordMargin == 1

----------------------------------------------------------------------------
(* Python values *)

PyNone == [t |-> "NoneType"]
PyNum(n) == [t |-> "int", n |-> n]
PyBool(b) == [t |-> "bool", n |-> IF b THEN 1 ELSE 0]
PyStr(s) == [t |-> "str", s |-> s]
PyList(xs) == [t |-> "list", xs |-> xs]
PyDict(kv) == [t |-> "dict", kv |-> kv]
PosInf == [t |-> "float", inf |-> "+"]
NegInf == [t |-> "float", inf |-> "-"]

EmptyKV == [k \in {} |-> PyNone]

IsDict(v) == v.t = "dict"
IsStr(v) == v.t = "str"
\* isinstance(v, (int, float)); bool is a subclass of int
IsNumber(v) == v.t \in {"int", "bool", "float"}

\* dict.get(key, default)
DictGet(d, key, default) == IF key \in DOMAIN d.kv THEN d.kv[key] ELSE default

\* a < b on Python numbers (int, bool, and the floats inf and -inf)
NumLess(a, b) ==
    IF a.t # "float" /\ b.t # "float" THEN a.n < b.n
    ELSE IF a.t = "float" /\ b.t = "float" THEN a.inf = "-" /\ b.inf = "+"
    ELSE IF a.t = "float" THEN a.inf = "-"
    ELSE b.inf = "+"

\* min(a, b): b when b < a, else a
PyMin(a, b) == IF NumLess(b, a) THEN b ELSE a

\* max(a, b): b when b > a, else a
PyMax(a, b) == IF NumLess(a, b) THEN b ELSE a

----------------------------------------------------------------------------
(* Python str operations, on sequences of characters *)

Digits == <<"0", "1", "2", "3", "4", "5", "6", "7", "8", "9">>
LowerLetters == <<"a", "b", "c", "d", "e", "f", "g", "h", "i", "j", "k", "l", "m",
                  "n", "o", "p", "q", "r", "s", "t", "u", "v", "w", "x", "y", "z">>
UpperLetters == <<"A", "B", "C", "D", "E", "F", "G", "H", "I", "J", "K", "L", "M",
                  "N", "O", "P", "Q", "R", "S", "T", "U", "V", "W", "X", "Y", "Z">>

InSeq(c, seq) == \E i \in 1..Len(seq) : seq[i] = c
IndexOf(c, seq) == CHOOSE i \in 1..Len(seq) : seq[i] = c

IsLower(c) == InSeq(c, LowerLetters)
IsUpper(c) == InSeq(c, UpperLetters)
IsCased(c) == IsLower(c) \/ IsUpper(c)
ToUpper(c) == IF IsLower(c) THEN UpperLetters[IndexOf(c, LowerLetters)] ELSE c
ToLower(c) == IF IsUpper(c) THEN LowerLetters[IndexOf(c, UpperLetters)] ELSE c

\* the code point of a character (the ones the model's strings use)
Ord(c) ==
    IF c = " " THEN 32
    ELSE IF c = "-" THEN 45
    ELSE IF InSeq(c, Digits) THEN 47 + IndexOf(c, Digits)
    ELSE IF c = ":" THEN 58
    ELSE IF IsUpper(c) THEN 64 + IndexOf(c, UpperLetters)
    ELSE 96 + IndexOf(c, LowerLetters)

\* a < b on str: lexicographic by code point
RECURSIVE StrLess(_, _)
StrLess(a, b) ==
    IF b = <<>> THEN FALSE
    ELSE IF a = <<>> THEN TRUE
    ELSE IF Head(a) = Head(b) THEN StrLess(Tail(a), Tail(b))
    ELSE Ord(Head(a)) < Ord(Head(b))

\* s.split(" "): cut at every single space, empty pieces kept
RECURSIVE Split(_)
Split(s) ==
    IF ~InSeq(" ", s) THEN <<s>>
    ELSE LET i == CHOOSE j \in 1..Len(s) :
                      s[j] = " " /\ \A k \in 1..(j - 1) : s[k] # " "
         IN  <<SubSeq(s, 1, i - 1)>> \o Split(SubSeq(s, i + 1, Len(s)))

\* s[:n]
Prefix(s, n) == SubSeq(s, 1, IF Len(s) < n THEN Len(s) ELSE n)

RECURSIVE TitleFrom(_, _)
TitleFrom(s, prevCased) ==
    IF s = <<>> THEN <<>>
    ELSE LET c == Head(s)
         IN  <<IF prevCased THEN ToLower(c) ELSE ToUpper(c)>>
             \o TitleFrom(Tail(s), IsCased(c))

\* a str.title() that leaves the string as it is
TitleUnchanged(s) == s

\* s.title(): a cased character is upper-cased after an uncased one (or at
\* the start) and lower-cased after a cased one
Title(s) == TitleFrom(s, FALSE)

----------------------------------------------------------------------------
(* ForecastDay *)

\* ForecastDay.__init__
ForecastDay(date) ==
    [date |-> date, hourly_data |-> <<>>, min_temp |-> PosInf,
     max_temp |-> NegInf, conditions |-> <<>>]

HourlyRecord(time, temp, condition, humidity, wind) ==
    [time |-> time, temp |-> temp, condition |-> condition,
     humidity |-> humidity, wind |-> wind]

\* an add_hourly that puts the new record in front of the recorded ones
AddHourlyInFront(d, time, temp, condition, humidity, wind) ==
    LET record == HourlyRecord(time, temp, condition, humidity, wind)
    IN  IF ~IsNumber(temp)
        THEN [exc |-> "TypeError", day |-> [d EXCEPT !.hourly_data = <<record>> \o @]]
        ELSE [exc |-> "none",
              day |-> [d EXCEPT
                         !.hourly_data = <<record>> \o @,
                         !.min_temp = PyMin(@, temp),
                         !.max_temp = PyMax(@, temp),
                         !.conditions = IF InSeq(condition, @) THEN @
                                        ELSE Append(@, condition)]]

\* an add_hourly that lets the newest temperature overwrite the maximum
AddHourlyLastIsMax(d, time, temp, condition, humidity, wind) ==
    LET record == HourlyRecord(time, temp, condition, humidity, wind)
    IN  IF ~IsNumber(temp)
        THEN [exc |-> "TypeError", day |-> [d EXCEPT !.hourly_data = Append(@, record)]]
        ELSE [exc |-> "none",
              day |-> [d EXCEPT
                         !.hourly_data = Append(@, record),
                         !.min_temp = PyMin(@, temp),
                         !.max_temp = temp,
                         !.conditions = IF InSeq(condition, @) THEN @
                                        ELSE Append(@, condition)]]

\* an add_hourly that tracks every condition, seen before or not
AddHourlyEveryCondition(d, time, temp, condition, humidity, wind) ==
    LET record == HourlyRecord(time, temp, condition, humidity, wind)
    IN  IF ~IsNumber(temp)
        THEN [exc |-> "TypeError", day |-> [d EXCEPT !.hourly_data = Append(@, record)]]
        ELSE [exc |-> "none",
              day |-> [d EXCEPT
                         !.hourly_data = Append(@, record),
                         !.min_temp = PyMin(@, temp),
                         !.max_temp = PyMax(@, temp),
                         !.conditions = Append(@, condition)]]

\* ForecastDay.add_hourly: the day after the call and the exception that
\* left it.  The record is appended before min() compares the temperature,
\* so a temperature that is no number leaves the record behind.
AddHourly(d, time, temp, condition, humidity, wind) ==
    LET appended == [d EXCEPT !.hourly_data =
                         Append(@, HourlyRecord(time, temp, condition, humidity, wind))]
    IN  IF ~IsNumber(temp)
        THEN [exc |-> "TypeError", day |-> appended]
        ELSE [exc |-> "none",
              day |-> [appended EXCEPT
                         !.min_temp = PyMin(@, temp),
                         !.max_temp = PyMax(@, temp),
                         !.conditions = IF InSeq(condition, @) THEN @
                                        ELSE Append(@, condition)]]

----------------------------------------------------------------------------
(* process_forecast_data *)

\* the exceptions the loop's except clause catches
Caught == {"KeyError", "IndexError", "ValueError"}

Unknown == <<"U", "n", "k", "n", "o", "w", "n">>

Fail(e) == [exc |-> e]

\* v[0]
Index0(v) ==
    IF v.t = "list"
    THEN IF v.xs = <<>> THEN Fail("IndexError") ELSE [exc |-> "none", val |-> v.xs[1]]
    ELSE IF v.t = "str"
    THEN IF v.s = <<>> THEN Fail("IndexError") ELSE [exc |-> "none", val |-> PyStr(<<v.s[1]>>)]
    ELSE IF v.t = "dict" THEN Fail("KeyError")
    ELSE Fail("TypeError")

\* the field extraction of one loop iteration: the fields, or the first exception
Extract(entry) ==
    IF ~IsDict(entry) THEN Fail("AttributeError")
    ELSE LET dt_txt == DictGet(entry, "dt_txt", PyStr(<<>>))
         IN
         IF ~IsStr(dt_txt) THEN Fail("AttributeError")
         ELSE LET parts == Split(dt_txt.s)
              IN
              IF Len(parts) < 2 THEN Fail("IndexError")
              ELSE LET main == DictGet(entry, "main", PyDict(EmptyKV))
                       first == Index0(DictGet(entry, "weather", PyList(<<PyDict(EmptyKV)>>)))
                       wind == DictGet(entry, "wind", PyDict(EmptyKV))
                   IN
                   IF first.exc # "none" THEN Fail(first.exc)
                   ELSE IF ~IsDict(main) THEN Fail("AttributeError")
                   ELSE IF ~IsDict(first.val) THEN Fail("AttributeError")
                   ELSE IF ~IsDict(wind) THEN Fail("AttributeError")
                   ELSE [exc |-> "none",
                         date |-> parts[1],
                         time |-> Prefix(parts[2], 5),
                         temp |-> DictGet(main, "temp", PyNum(0)),
                         condition |-> DictGet(first.val, "description", PyStr(Unknown)),
                         humidity |-> DictGet(main, "humidity", PyNum(0)),
                         wind_speed |-> DictGet(wind, "speed", PyNum(0))]

HasDay(days, date) == \E i \in 1..Len(days) : days[i].date = date
DayIndex(days, date) == CHOOSE i \in 1..Len(days) : days[i].date = date

\* forecast_days[date] = ForecastDay(date) if date is no key yet
EnsureDay(days, date) ==
    IF HasDay(days, date) THEN days ELSE Append(days, ForecastDay(date))

\* the second half of a loop iteration: create the day, add the hourly data
Store(days, x) ==
    LET days1 == EnsureDay(days, x.date)
        i == DayIndex(days1, x.date)
    IN  IF ~IsStr(x.condition)
        THEN [exc |-> "AttributeError", days |-> days1]
        ELSE LET r == AddHourly(days1[i], x.time, x.temp, Title(x.condition.s),
                                x.humidity, x.wind_speed)
             IN  [exc |-> r.exc, days |-> [days1 EXCEPT ![i] = r.day]]

\* a loop body that creates the day as soon as the date is known, before the
\* rest of the entry is extracted
LoopBodyDayFirst(days, entry) ==
    LET x == Extract(entry)
        dated == IsDict(entry)
                 /\ IsStr(DictGet(entry, "dt_txt", PyStr(<<>>)))
                 /\ Len(Split(DictGet(entry, "dt_txt", PyStr(<<>>)).s)) >= 2
    IN  IF x.exc = "none" THEN Store(days, x)
        ELSE IF dated
        THEN [exc |-> x.exc,
              days |-> EnsureDay(days, Split(DictGet(entry, "dt_txt", PyStr(<<>>)).s)[1])]
        ELSE [exc |-> x.exc, days |-> days]

\* one iteration of the for loop: the exception it ended with ("none" when
\* the entry was added) and the dict afterwards
LoopBody(days, entry) ==
    LET x == Extract(entry)
    IN  IF x.exc # "none" THEN [exc |-> x.exc, days |-> days] ELSE Store(days, x)

\* sorted() that returns the days in the dict's insertion order
SortedUnsorted(days) == days

\* sorted(days, key=lambda x: x.date): a stable sort by date string
RECURSIVE SortedByDate(_)
SortedByDate(days) ==
    IF days = <<>> THEN <<>>
    ELSE LET rest == SortedByDate(SubSeq(days, 1, Len(days) - 1))
             last == days[Len(days)]
             \* last goes behind every day whose date is not greater than its own
             k == Cardinality({i \in 1..Len(rest) : ~StrLess(last.date, rest[i].date)})
         IN  SubSeq(rest, 1, k) \o <<last>> \o SubSeq(rest, k + 1, Len(rest))

----------------------------------------------------------------------------
(* The forecast entries the model draws its input lists from *)

Date20240101 == <<"2", "0", "2", "4", "-", "0", "1", "-", "0", "1">>
Date20240102 == <<"2", "0", "2", "4", "-", "0", "1", "-", "0", "2">>
Date20231231 == <<"2", "0", "2", "3", "-", "1", "2", "-", "3", "1">>
Time0000 == <<"0", "0", ":", "0", "0", ":", "0", "0">>
Time0300 == <<"0", "3", ":", "0", "0", ":", "0", "0">>
Space == <<" ">>

LightRainLower == <<"l", "i", "g", "h", "t", " ", "r", "a", "i", "n">>
LightRainTitle == <<"L", "i", "g", "h", "t", " ", "R", "a", "i", "n">>
ClearSky == <<"c", "l", "e", "a", "r", " ", "s", "k", "y">>
Icon == <<"0", "1", "d">>

\* dict with key k set to v / without key k
With(d, k, v) == PyDict([x \in DOMAIN d.kv \cup {k} |-> IF x = k THEN v ELSE d.kv[x]])
Without(d, k) == PyDict([x \in DOMAIN d.kv \ {k} |-> d.kv[x]])

\* a well-formed entry of the forecast list
Entry(date, time, temp, description) ==
    PyDict([dt_txt |-> PyStr(date \o Space \o time),
            main |-> PyDict([temp |-> PyNum(temp), humidity |-> PyNum(50)]),
            weather |-> PyList(<<PyDict([description |-> PyStr(description),
                                         icon |-> PyStr(Icon)])>>),
            wind |-> PyDict([speed |-> PyNum(3)])])

WellFormedEntries ==
    { Entry(Date20240101, Time0000, 10, LightRainLower),
      Entry(Date20240101, Time0300, 15, LightRainTitle),
      Entry(Date20240102, Time0000, -2, ClearSky),
      Entry(Date20231231, Time0300, 10, ClearSky) }

Base == Entry(Date20240101, Time0300, 15, ClearSky)

\* Base with its main.temp removed
MissingTempEntry == With(Base, "main", Without(Base.kv["main"], "temp"))

MalformedEntries ==
    { PyStr(ClearSky),                                      \* not a mapping
      With(Base, "dt_txt", PyNum(20240101)),                \* dt_txt no string
      Without(Base, "dt_txt"),                              \* dt_txt missing
      With(Base, "main", PyList(<<>>)),                     \* main no mapping
      MissingTempEntry,
      With(Base, "main", With(Base.kv["main"], "temp", PyStr(ClearSky))),  \* temp no number
      With(Base, "weather", PyList(<<>>)),                  \* empty weather array
      With(Entry(Date20240102, Time0000, -2, ClearSky),     \* weather a mapping
           "weather", PyDict(EmptyKV)),
      With(Base, "weather", PyList(<<PyDict([description |-> PyNum(800)])>>)),
      With(Base, "dt_txt", PyStr(Date20240101)),            \* dt_txt without a time
      With(Base, "weather", PyNone),                        \* weather null
      With(Base, "wind", PyNum(3)) }                        \* wind no mapping

Entries == WellFormedEntries \cup MalformedEntries

\* every list of at most n entries
RECURSIVE ListsUpTo(_)
ListsUpTo(n) ==
    IF n = 0 THEN {<<>>}
    ELSE LET shorter == ListsUpTo(n - 1)
         IN  shorter \cup {Append(l, e) : l \in {x \in shorter : Len(x) = n - 1}, e \in Entries}

----------------------------------------------------------------------------
(* process_forecast_data as a state machine: one step per loop iteration *)

NoDay == ForecastDay(<<>>)
NoDoc == PyNone
NoOutcome == [kind |-> "none"]
NoResponse == [kind |-> "none"]

\* create_forecast_view has not been called
NotAsked == [kind |-> "none"]

\* the SearchHistory of a first start: _load_history finds no file
EmptyHistory == [recent |-> <<>>, favorites |-> <<>>]

NoCall == [op |-> "none"]

\* show_weather has not been invoked
NotInvoked == [invocations |-> 0, path |-> "none"]

\* the application objects as constructed, nothing called yet
AppIdle ==
    /\ history_data = EmptyHistory
    /\ history_call = NoCall
    /\ history_budget = [cities |-> 0, repeats |-> 0]
    /\ weather_history = EmptyKV
    /\ weather_call = NoCall
    /\ weather_clock = 0
    /\ cities_data = <<>>
    /\ comparison_call = NoCall
    /\ report = NoCall
    /\ get_weather_button = "normal"
    /\ loading_label = <<>>
    /\ forecast_data = <<>>
    /\ last_weather_data = PyNone
    /\ show_weather_call = NotInvoked

\* nothing validated, rendered, fetched or aggregated before
RestIdle ==
    /\ validator = "none"
    /\ text = PyNone
    /\ response = NoResponse
    /\ first_result = PyNone
    /\ expanded_date = NotAsked
    /\ AppIdle

InitForecast ==
    /\ forecast_list \in ListsUpTo(MaxLen)
    /\ idx = 1
    /\ forecast_days = <<>>
    /\ skipped = {}
    /\ pc = "loop"
    /\ raised = "none"
    /\ result = <<>>
    /\ day = NoDay
    /\ doc = NoDoc
    /\ outcome = NoOutcome
    /\ RestIdle

InLoop == pc = "loop" /\ idx <= Len(forecast_list)

\* the entry is extracted and added to its day
LoopAdd ==
    /\ InLoop
    /\ LET r == LoopBody(forecast_days, forecast_list[idx])
       IN  /\ r.exc = "none"
           /\ forecast_days' = r.days
    /\ idx' = idx + 1
    /\ UNCHANGED <<forecast_list, skipped, pc, raised, result, day, doc, outcome>>
    /\ UNCHANGED <<validator, restVars>>

\* the except clause: continue with the next entry
LoopSkip ==
    /\ InLoop
    /\ LET r == LoopBody(forecast_days, forecast_list[idx])
       IN  /\ r.exc \in Caught
           /\ forecast_days' = r.days
    /\ skipped' = skipped \cup {idx}
    /\ idx' = idx + 1
    /\ UNCHANGED <<forecast_list, pc, raised, result, day, doc, outcome>>
    /\ UNCHANGED <<validator, restVars>>

\* an exception the except clause does not name leaves the call
LoopRaise ==
    /\ InLoop
    /\ LET r == LoopBody(forecast_days, forecast_list[idx])
       IN  /\ r.exc \notin Caught \cup {"none"}
           /\ forecast_days' = r.days
           /\ raised' = r.exc
    /\ pc' = "raised"
    /\ UNCHANGED <<forecast_list, idx, skipped, result, day, doc, outcome>>
    /\ UNCHANGED <<validator, restVars>>

\* return sorted(forecast_days.values(), key=lambda x: x.date)
Return ==
    /\ pc = "loop"
    /\ idx > Len(forecast_list)
    /\ result' = SortedByDate(forecast_days)
    /\ pc' = "done"
    /\ UNCHANGED <<forecast_list, idx, forecast_days, skipped, raised, day, doc, outcome>>
    /\ UNCHANGED <<validator, restVars>>

NextForecast == LoopAdd \/ LoopSkip \/ LoopRaise \/ Return

SpecForecast == InitForecast /\ [][NextForecast]_vars

----------------------------------------------------------------------------
(* A ForecastDay driven directly: any sequence of add_hourly calls *)

HHMM0000 == Prefix(Time0000, 5)
HHMM0300 == Prefix(Time0300, 5)

CallTimes == {HHMM0000, HHMM0300}
CallTemps == {PyNum(-2), PyNum(10), PyNum(15)}
CallConditions == {LightRainLower, LightRainTitle, ClearSky}

InitDay ==
    /\ day = ForecastDay(Date20240101)
    /\ forecast_list = <<>>
    /\ idx = 1
    /\ forecast_days = <<>>
    /\ skipped = {}
    /\ pc = "idle"
    /\ raised = "none"
    /\ result = <<>>
    /\ doc = NoDoc
    /\ outcome = NoOutcome
    /\ RestIdle

\* day.add_hourly(time, temp, condition, 50, 3)
AddHourlyCall ==
    /\ pc = "idle"
    /\ Len(day.hourly_data) < MaxCalls
    /\ \E time \in CallTimes, temp \in CallTemps, condition \in CallConditions :
           day' = AddHourly(day, time, temp, condition, PyNum(50), PyNum(3)).day
    /\ UNCHANGED <<aggVars, doc, outcome>>
    /\ UNCHANGED <<validator, restVars>>

NextDay == AddHourlyCall

SpecDay == InitDay /\ [][NextDay]_vars

----------------------------------------------------------------------------
(* Properties of the forecast aggregator *)

Range(seq) == {seq[i] : i \in 1..Len(seq)}

\* the entries of the input list that were added to a day
AddedIndices == {i \in 1..Len(forecast_list) : i < idx /\ i \notin skipped}

\* the date an entry carries, for an entry whose dt_txt has a date and a time
Dated(e) ==
    /\ IsDict(e)
    /\ "dt_txt" \in DOMAIN e.kv
    /\ IsStr(e.kv["dt_txt"])
    /\ Len(Split(e.kv["dt_txt"].s)) >= 2
DateOf(e) == Split(e.kv["dt_txt"].s)[1]

\* the hourly record an added entry stands for
RecordOf(e) ==
    LET x == Extract(e)
    IN  HourlyRecord(x.time, x.temp, Title(x.condition.s), x.humidity, x.wind_speed)

\* the records of the added entries dated `date` among the first n, in input order
RECURSIVE RecordsOfDate(_, _)
RecordsOfDate(date, n) ==
    IF n = 0 THEN <<>>
    ELSE RecordsOfDate(date, n - 1)
         \o (IF n \in AddedIndices /\ DateOf(forecast_list[n]) = date
             THEN <<RecordOf(forecast_list[n])>> ELSE <<>>)

\* C1: when process_forecast_data returns, its result holds exactly one
\* ForecastDay per distinct date among the entries it did not skip, and each
\* day's hourly_data is exactly the records of the entries carrying that
\* date, in the order of the input list.
C1_OneDayPerDateInInputOrder ==
    pc = "done" =>
        LET dates == {DateOf(forecast_list[i]) : i \in AddedIndices}
        IN  /\ {d.date : d \in Range(result)} = dates
            /\ Len(result) = Cardinality(dates)
            /\ \A k \in 1..Len(result) :
                   result[k].hourly_data = RecordsOfDate(result[k].date, Len(forecast_list))

\* the example of the specification: two entries of 2024-01-01, one of 2024-01-02
C1_Witness ==
    /\ pc = "done"
    /\ forecast_list = <<Entry(Date20240101, Time0000, 10, LightRainLower),
                         Entry(Date20240101, Time0300, 15, LightRainTitle),
                         Entry(Date20240102, Time0000, -2, ClearSky)>>
    /\ Len(result) = 2
    /\ result[1].date = Date20240101
    /\ Len(result[1].hourly_data) = 2
    /\ result[1].hourly_data[1].time = HHMM0000
    /\ result[1].hourly_data[2].time = HHMM0300
    /\ result[1].min_temp = PyNum(10)
    /\ result[1].max_temp = PyNum(15)
    /\ result[2].date = Date20240102
    /\ Len(result[2].hourly_data) = 1
    /\ result[2].min_temp = PyNum(-2)
    /\ result[2].max_temp = PyNum(-2)

\* C2: after any sequence of add_hourly calls, min_temp and max_temp are the
\* smallest and the largest recorded temperature of the day, so every
\* recorded temperature lies between them.
C2_MinMaxAreRecordedExtremes ==
    day.hourly_data # <<>> =>
        LET temps == {h.temp : h \in Range(day.hourly_data)}
        IN  /\ day.min_temp \in temps
            /\ day.max_temp \in temps
            /\ \A t \in temps : day.min_temp.n <= t.n /\ t.n <= day.max_temp.n

C2_Witness ==
    /\ Len(day.hourly_data) = 3
    /\ day.hourly_data[1].temp = PyNum(10)
    /\ day.hourly_data[2].temp = PyNum(15)
    /\ day.hourly_data[3].temp = PyNum(-2)
    /\ day.min_temp = PyNum(-2)
    /\ day.max_temp = PyNum(15)

\* position of the first hourly record with the condition c
FirstSeenAt(c) == CHOOSE i \in 1..Len(day.hourly_data) :
                      /\ day.hourly_data[i].condition = c
                      /\ \A j \in 1..(i - 1) : day.hourly_data[j].condition # c

\* C3: after any sequence of add_hourly calls, the conditions list holds
\* each distinct condition that was added exactly once, in first-seen order.
C3_ConditionsOnceInFirstSeenOrder ==
    /\ Range(day.conditions) = {h.condition : h \in Range(day.hourly_data)}
    /\ \A i, j \in 1..Len(day.conditions) :
           i < j => /\ day.conditions[i] # day.conditions[j]
                    /\ FirstSeenAt(day.conditions[i]) < FirstSeenAt(day.conditions[j])

C3_Witness ==
    /\ Len(day.hourly_data) = 3
    /\ day.hourly_data[1].condition = LightRainLower
    /\ day.hourly_data[2].condition = ClearSky
    /\ day.hourly_data[3].condition = LightRainLower
    /\ day.conditions = <<LightRainLower, ClearSky>>

\* C4: the returned sequence is ordered by strictly ascending date string,
\* whatever the order of the dates in the input list.
C4_ResultStrictlyAscending ==
    pc = "done" =>
        \A k \in 1..(Len(result) - 1) : StrLess(result[k].date, result[k + 1].date)

\* the dates arrive in descending order and are returned in ascending order
C4_Witness ==
    /\ pc = "done"
    /\ Len(forecast_days) = 3
    /\ forecast_days[1].date = Date20240102
    /\ forecast_days[2].date = Date20240101
    /\ forecast_days[3].date = Date20231231
    /\ result[1].date = Date20231231
    /\ result[2].date = Date20240101
    /\ result[3].date = Date20240102

\* C5: process_forecast_data never raises for a malformed entry: no
\* exception leaves the call.
C5_NeverRaises == pc # "raised"

\* an entry whose main is a mapping without the key temp
MissingTemp(e) ==
    /\ IsDict(e)
    /\ "main" \in DOMAIN e.kv
    /\ IsDict(e.kv["main"])
    /\ "temp" \notin DOMAIN e.kv["main"].kv

\* C6: an entry whose main.temp is missing is skipped: once the loop is
\* past it, it is among the skipped entries (it added no hourly record).
C6_MissingTempSkipped ==
    \A i \in 1..Len(forecast_list) :
        (i < idx /\ MissingTemp(forecast_list[i])) => i \in skipped

\* C7 as claimed: every non-empty input list yields at least one ForecastDay.
C7_NonEmptyInputYieldsDay ==
    (pc = "done" /\ forecast_list # <<>>) => result # <<>>

\* C7 as amended: the returned day sequence is empty exactly when no entry
\* was added, that is when the input is empty or every entry was skipped.
C7_EmptyIffNothingAdded ==
    pc = "done" => (result = <<>> <=> skipped = 1..Len(forecast_list))

C7_Witness ==
    /\ pc = "done"
    /\ Len(forecast_list) = 2
    /\ skipped = {1, 2}
    /\ result = <<>>

CaseFold(s) == [i \in 1..Len(s) |-> ToLower(s[i])]

\* the descriptions, as received, of the added entries dated `date`
ReceivedConditions(date) ==
    {Extract(forecast_list[i]).condition.s :
        i \in {j \in AddedIndices : DateOf(forecast_list[j]) = date}}

\* C8 as claimed: conditions are deduplicated by exact match on the
\* condition as received, so a day lists as many conditions as its entries
\* carry distinct descriptions.
C8_DedupOnConditionAsReceived ==
    pc = "done" =>
        \A d \in Range(result) : Len(d.conditions) = Cardinality(ReceivedConditions(d.date))

\* C8 as amended: conditions are deduplicated after title-casing, so
\* descriptions that differ only in letter case give one condition: no two
\* conditions of a day are equal up to case, and up to case they are the
\* descriptions received.
C8_DedupAfterTitleCase ==
    pc = "done" =>
        \A d \in Range(result) :
            /\ \A i, j \in 1..Len(d.conditions) :
                   i # j => CaseFold(d.conditions[i]) # CaseFold(d.conditions[j])
            /\ {CaseFold(c) : c \in Range(d.conditions)}
                   = {CaseFold(c) : c \in ReceivedConditions(d.date)}

\* "light rain" and "Light Rain" on one date give the single condition "Light Rain"
C8_Witness ==
    /\ pc = "done"
    /\ forecast_list = <<Entry(Date20240101, Time0000, 10, LightRainLower),
                         Entry(Date20240101, Time0300, 15, LightRainTitle)>>
    /\ Len(result) = 1
    /\ result[1].conditions = <<LightRainTitle>>

----------------------------------------------------------------------------
(* validation.py: what a validator does with a document *)

\* the validator returned value
Ok(value) == [kind |-> "ok", value |-> value]

\* the validator raised exc with a message starting with msg
Raise(exc, msg) == [kind |-> "raise", exc |-> exc, msg |-> msg]

\* validate_json_response
ValidateJsonResponse(response_data) ==
    IF ~IsDict(response_data)
    THEN Raise("ValueError", "Expected dict response")
    ELSE Ok(TRUE)

\* validate_key_exists
ValidateKeyExists(data, key, key_path) ==
    IF key \notin DOMAIN data.kv
    THEN LET full_path == IF key_path # "" THEN key_path \o "." \o key ELSE key
         IN  Raise("KeyError", "Missing required key: '" \o full_path \o "'")
    ELSE Ok(TRUE)

\* a <= b on Python numbers
NumLE(a, b) == ~NumLess(b, a)

\* a range check that leaves the two limits out
InRangeExclusive(value, lo, hi) == NumLess(PyNum(lo), value) /\ NumLess(value, PyNum(hi))

\* a range check that forgets the upper limit
InRangeNoUpperLimit(value, lo, hi) == NumLE(PyNum(lo), value)

\* lo <= value <= hi
InRange(value, lo, hi) == NumLE(PyNum(lo), value) /\ NumLE(value, PyNum(hi))

\* the body of the loop over "lat" and "lon"
ValidateCoordKey(coord, key) ==
    LET present == ValidateKeyExists(coord, key, "coord")
    IN  IF present.kind = "raise" THEN present
        ELSE LET value == coord.kv[key]
             IN  IF ~IsNumber(value)
                 THEN Raise("ValueError", "Expected 'coord." \o key \o "' to be number")
                 ELSE IF key = "lat" /\ ~InRange(value, -90, 90)
                 THEN Raise("ValueError", "Latitude out of range")
                 ELSE IF key = "lon" /\ ~InRange(value, -180, 180)
                 THEN Raise("ValueError", "Longitude out of range")
                 ELSE Ok(TRUE)

\* a validate_coordinates_response that looks for both keys before it
\* checks either value
ValidateCoordinatesPresenceFirst(data) ==
    IF ~IsDict(data) THEN Raise("ValueError", "Expected dict response")
    ELSE IF "coord" \notin DOMAIN data.kv THEN Raise("KeyError", "Missing required key: 'coord'")
    ELSE IF ~IsDict(data.kv["coord"]) THEN Raise("TypeError", "Expected 'coord' to be dict")
    ELSE IF "lat" \notin DOMAIN data.kv["coord"].kv
    THEN Raise("KeyError", "Missing required key: 'coord.lat'")
    ELSE IF "lon" \notin DOMAIN data.kv["coord"].kv
    THEN Raise("KeyError", "Missing required key: 'coord.lon'")
    ELSE LET lat == ValidateCoordKey(data.kv["coord"], "lat")
             lon == ValidateCoordKey(data.kv["coord"], "lon")
         IN  IF lat.kind = "raise" THEN lat
             ELSE IF lon.kind = "raise" THEN lon
             ELSE Ok(data.kv["coord"])

\* validate_coordinates_response
ValidateCoordinatesResponse(data) ==
    LET isJson == ValidateJsonResponse(data)
    IN  IF isJson.kind = "raise" THEN isJson
        ELSE LET hasCoord == ValidateKeyExists(data, "coord", "")
             IN  IF hasCoord.kind = "raise" THEN hasCoord
                 ELSE LET coord == data.kv["coord"]
                      IN  IF ~IsDict(coord)
                          THEN Raise("TypeError", "Expected 'coord' to be dict")
                          ELSE LET lat == ValidateCoordKey(coord, "lat")
                                   lon == ValidateCoordKey(coord, "lon")
                               IN  IF lat.kind = "raise" THEN lat
                                   ELSE IF lon.kind = "raise" THEN lon
                                   ELSE Ok(coord)

----------------------------------------------------------------------------
(* The coordinate documents the model validates *)

\* the integers within CoordMargin of limit
Around(limit) == (limit - CoordMargin)..(limit + CoordMargin)

LatSamples == Around(-90) \cup {0} \cup Around(90)
LonSamples == Around(-180) \cup {0} \cup Around(180)

\* values that are no in-range number
OddValues == {PyStr(<<"4", "5">>), PyBool(TRUE), PosInf}

\* the mappings with some of the keys lat and lon
CoordDicts ==
    LET lats == {PyNum(n) : n \in LatSamples} \cup OddValues
        lons == {PyNum(n) : n \in LonSamples} \cup OddValues
    IN  {PyDict([lat |-> a, lon |-> o]) : a \in lats, o \in lons}
        \cup {PyDict([lat |-> a]) : a \in lats}
        \cup {PyDict([lon |-> o]) : o \in lons}
        \cup {PyDict(EmptyKV)}

CoordDocs ==
    {PyDict([coord |-> c]) : c \in CoordDicts}
    \cup {PyDict([coord |-> PyList(<<>>)]), PyDict(EmptyKV), PyList(<<>>), PyNone}

InitCoord ==
    /\ doc \in CoordDocs
    /\ outcome = NoOutcome
    /\ day = NoDay
    /\ forecast_list = <<>>
    /\ idx = 1
    /\ forecast_days = <<>>
    /\ skipped = {}
    /\ pc = "idle"
    /\ raised = "none"
    /\ result = <<>>
    /\ RestIdle

\* validate_coordinates_response(doc)
ValidateCoordinates ==
    /\ pc = "idle"
    /\ outcome = NoOutcome
    /\ outcome' = ValidateCoordinatesResponse(doc)
    /\ validator' = "coordinates"
    /\ UNCHANGED <<aggVars, day, doc, restVars>>

NextCoord == ValidateCoordinates

SpecCoord == InitCoord /\ [][NextCoord]_vars

----------------------------------------------------------------------------
(* Properties of validate_coordinates_response *)

\* v is a number within lo..hi, limits included
NumberWithin(v, lo, hi) == v.t \in {"int", "bool"} /\ lo <= v.n /\ v.n <= hi

\* an object with an object coord whose lat and lon are numbers in range
ValidCoordDoc(d) ==
    /\ d.t = "dict"
    /\ "coord" \in DOMAIN d.kv
    /\ d.kv["coord"].t = "dict"
    /\ {"lat", "lon"} \subseteq DOMAIN d.kv["coord"].kv
    /\ NumberWithin(d.kv["coord"].kv["lat"], -90, 90)
    /\ NumberWithin(d.kv["coord"].kv["lon"], -180, 180)

\* C10: for a document with an object coord whose numeric lat is in
\* [-90,90] and numeric lon is in [-180,180], limits included,
\* validate_coordinates_response succeeds and returns lat and lon unchanged.
C10_ValidCoordinatesReturnedUnchanged ==
    (outcome # NoOutcome /\ ValidCoordDoc(doc)) =>
        /\ outcome.kind = "ok"
        /\ outcome.value.kv["lat"] = doc.kv["coord"].kv["lat"]
        /\ outcome.value.kv["lon"] = doc.kv["coord"].kv["lon"]

\* a document on both limits is accepted
C10_Witness ==
    /\ outcome.kind = "ok"
    /\ doc = PyDict([coord |-> PyDict([lat |-> PyNum(90), lon |-> PyNum(-180)])])
    /\ outcome.value = PyDict([lat |-> PyNum(90), lon |-> PyNum(-180)])

\* v is a number outside lo..hi (the model's only floats are inf and -inf)
NumberOutside(v, lo, hi) ==
    \/ v.t = "float"
    \/ v.t \in {"int", "bool"} /\ (v.n < lo \/ hi < v.n)

\* d[k], or None when d is no mapping or has no key k
Field(d, k) == IF d.t = "dict" /\ k \in DOMAIN d.kv THEN d.kv[k] ELSE PyNone

----------------------------------------------------------------------------
(* Air quality: the AQI tables, validate_air_quality_response, get_air_quality *)

\* how far below 1 and above 5 the sampled AQI values reach
AqiMargin == 1

Good == <<"G", "o", "o", "d">>
Fair == <<"F", "a", "i", "r">>
Moderate == <<"M", "o", "d", "e", "r", "a", "t", "e">>
Poor == <<"P", "o", "o", "r">>
VeryPoor == <<"V", "e", "r", "y", " ", "P", "o", "o", "r">>

\* an AQILevel enum with the descriptions of POOR and VERY_POOR exchanged
AQILevelMembersExchanged ==
    <<[value_num |-> 1, description |-> Good],
      [value_num |-> 2, description |-> Fair],
      [value_num |-> 3, description |-> Moderate],
      [value_num |-> 4, description |-> VeryPoor],
      [value_num |-> 5, description |-> Poor]>>

\* class AQILevel(Enum): the members in definition order
AQILevelMembers ==
    <<[value_num |-> 1, description |-> Good],
      [value_num |-> 2, description |-> Fair],
      [value_num |-> 3, description |-> Moderate],
      [value_num |-> 4, description |-> Poor],
      [value_num |-> 5, description |-> VeryPoor]>>

\* n == value for an int n and a Python value
IntEquals(n, value) == value.t \in {"int", "bool"} /\ value.n = n

\* AQILevel.from_value: the first member whose value_num equals value
AQILevelFromValue(value) ==
    LET hits == {i \in 1..Len(AQILevelMembers) : IntEquals(AQILevelMembers[i].value_num, value)}
    IN  IF hits = {}
        THEN Raise("ValueError", "Invalid AQI value")
        ELSE Ok(AQILevelMembers[CHOOSE i \in hits : \A j \in hits : i <= j])

\* config.AQI_LEVELS: level -> AQILevel.<member>.description
ConfigAqiLevels ==
    [n \in 1..5 |-> AQILevelMembers[n].description]

\* AirQualityDetails.AQI_LEVELS: level -> label
DetailsAqiLabels ==
    [n \in 1..5 |-> CASE n = 1 -> Good
                      [] n = 2 -> Fair
                      [] n = 3 -> Moderate
                      [] n = 4 -> Poor
                      [] n = 5 -> VeryPoor]

\* AirQualityData.from_value
AirQualityDataFromValue(aqi_value) ==
    LET aqi_level == AQILevelFromValue(aqi_value)
    IN  IF aqi_level.kind = "raise" THEN aqi_level
        ELSE Ok([aqi_level |-> aqi_level.value, aqi_value |-> aqi_value,
                 description |-> aqi_level.value.description])

\* a validate_air_quality_response without the check against AQILevel
ValidateAirQualityNoLevelCheck(data) ==
    IF ~IsDict(data) THEN Raise("ValueError", "Expected dict response")
    ELSE IF "list" \notin DOMAIN data.kv THEN Raise("KeyError", "Missing required key: 'list'")
    ELSE IF data.kv["list"].t # "list" THEN Raise("TypeError", "Expected 'list' to be list")
    ELSE IF data.kv["list"].xs = <<>> THEN Raise("ValueError", "'list' array is empty")
    ELSE IF ~IsDict(data.kv["list"].xs[1]) THEN Raise("TypeError", "Expected 'list[0]' to be dict")
    ELSE IF "main" \notin DOMAIN data.kv["list"].xs[1].kv
    THEN Raise("KeyError", "Missing required key: 'list[0].main'")
    ELSE IF ~IsDict(data.kv["list"].xs[1].kv["main"])
    THEN Raise("TypeError", "Expected 'list[0].main' to be dict")
    ELSE IF "aqi" \notin DOMAIN data.kv["list"].xs[1].kv["main"].kv
    THEN Raise("KeyError", "Missing required key: 'list[0].main.aqi'")
    ELSE IF data.kv["list"].xs[1].kv["main"].kv["aqi"].t \notin {"int", "bool"}
    THEN Raise("ValueError", "Expected 'list[0].main.aqi' to be integer")
    ELSE Ok(data)

\* validate_air_quality_response
ValidateAirQualityResponse(data) ==
    LET isJson == ValidateJsonResponse(data)
    IN
    IF isJson.kind = "raise" THEN isJson
    ELSE LET hasList == ValidateKeyExists(data, "list", "")
    IN
    IF hasList.kind = "raise" THEN hasList
    ELSE LET aqi_list == data.kv["list"]
    IN
    IF aqi_list.t # "list" THEN Raise("TypeError", "Expected 'list' to be list")
    ELSE IF Len(aqi_list.xs) = 0 THEN Raise("ValueError", "'list' array is empty")
    ELSE LET aqi_item == aqi_list.xs[1]
    IN
    IF ~IsDict(aqi_item) THEN Raise("TypeError", "Expected 'list[0]' to be dict")
    ELSE LET hasMain == ValidateKeyExists(aqi_item, "main", "list[0]")
    IN
    IF hasMain.kind = "raise" THEN hasMain
    ELSE LET main == aqi_item.kv["main"]
    IN
    IF ~IsDict(main) THEN Raise("TypeError", "Expected 'list[0].main' to be dict")
    ELSE LET hasAqi == ValidateKeyExists(main, "aqi", "list[0].main")
    IN
    IF hasAqi.kind = "raise" THEN hasAqi
    ELSE LET aqi_value == main.kv["aqi"]
    IN
    \* isinstance(aqi_value, int); bool is a subclass of int
    IF aqi_value.t \notin {"int", "bool"}
    THEN Raise("ValueError", "Expected 'list[0].main.aqi' to be integer")
    ELSE IF AQILevelFromValue(aqi_value).kind = "raise"
    THEN Raise("ValueError", "Invalid AQI value in response")
    ELSE Ok(data)

\* str(n) for a natural number n
RECURSIVE NatToStr(_)
NatToStr(n) ==
    IF n < 10 THEN <<Digits[n + 1]>>
    ELSE NatToStr(n \div 10) \o <<Digits[(n % 10) + 1]>>

\* str(n) for an int
IntToStr(n) == IF n < 0 THEN <<"-">> \o NatToStr(-n) ELSE NatToStr(n)

PyTrue == <<"T", "r", "u", "e">>
PyFalse == <<"F", "a", "l", "s", "e">>

\* f"{value}" for an int or a bool
FormatInt(value) ==
    IF value.t = "bool" THEN (IF value.n = 1 THEN PyTrue ELSE PyFalse)
    ELSE IntToStr(value.n)

MSG_UNAVAILABLE_TIMEOUT == <<"U", "n", "a", "v", "a", "i", "l", "a", "b", "l", "e", " ", "(", "T", "i", "m", "e", "o", "u", "t", ")">>
MSG_UNAVAILABLE_NO_CONNECTION == <<"U", "n", "a", "v", "a", "i", "l", "a", "b", "l", "e", " ", "(", "N", "o", " ", "C", "o", "n", "n", "e", "c", "t", "i", "o", "n", ")">>
MSG_UNAVAILABLE_NETWORK_ERROR == <<"U", "n", "a", "v", "a", "i", "l", "a", "b", "l", "e", " ", "(", "N", "e", "t", "w", "o", "r", "k", " ", "E", "r", "r", "o", "r", ")">>
MSG_UNAVAILABLE_INVALID_RESPONSE == <<"U", "n", "a", "v", "a", "i", "l", "a", "b", "l", "e", " ", "(", "I", "n", "v", "a", "l", "i", "d", " ", "R", "e", "s", "p", "o", "n", "s", "e", ")">>
MSG_UNAVAILABLE_API_KEY == <<"U", "n", "a", "v", "a", "i", "l", "a", "b", "l", "e", " ", "(", "A", "P", "I", " ", "K", "e", "y", " ", "I", "s", "s", "u", "e", ")">>
MSG_UNAVAILABLE_RATE_LIMITED == <<"U", "n", "a", "v", "a", "i", "l", "a", "b", "l", "e", " ", "(", "R", "a", "t", "e", " ", "L", "i", "m", "i", "t", "e", "d", ")">>
MSG_UNAVAILABLE_API_ERROR == <<"U", "n", "a", "v", "a", "i", "l", "a", "b", "l", "e", " ", "(", "A", "P", "I", " ", "E", "r", "r", "o", "r", ")">>

UnknownLabel == <<" ", "(", "U", "n", "k", "n", "o", "w", "n", ")">>

\* a body that response.json() cannot decode
InvalidJson == [t |-> "invalid json"]

\* the validation inside get_air_quality: response.json(), then
\* validate_air_quality_response
AirQualityValidation(body) ==
    IF body = InvalidJson THEN Raise("ValueError", "JSONDecodeError")
    ELSE ValidateAirQualityResponse(body)

\* a get_air_quality that has no branch for status 429
GetAirQualityNoRateLimitBranch(resp) ==
    IF resp.kind = "Timeout" THEN MSG_UNAVAILABLE_TIMEOUT
    ELSE IF resp.kind = "ConnectionError" THEN MSG_UNAVAILABLE_NO_CONNECTION
    ELSE IF resp.kind = "RequestException" THEN MSG_UNAVAILABLE_NETWORK_ERROR
    ELSE IF resp.status_code = 200
    THEN LET validated == AirQualityValidation(resp.body)
         IN  IF validated.kind = "raise"
             THEN MSG_UNAVAILABLE_INVALID_RESPONSE
             ELSE LET aqi_value == validated.value.kv["list"].xs[1].kv["main"].kv["aqi"]
                  IN  FormatInt(aqi_value) \o <<" ", "(">>
                      \o AQILevelFromValue(aqi_value).value.description \o <<")">>
    ELSE IF resp.status_code = 401 THEN MSG_UNAVAILABLE_API_KEY
    ELSE MSG_UNAVAILABLE_API_ERROR

\* get_air_quality, given what requests.get did
GetAirQuality(resp) ==
    IF resp.kind = "Timeout" THEN MSG_UNAVAILABLE_TIMEOUT
    ELSE IF resp.kind = "ConnectionError" THEN MSG_UNAVAILABLE_NO_CONNECTION
    ELSE IF resp.kind = "RequestException" THEN MSG_UNAVAILABLE_NETWORK_ERROR
    ELSE IF resp.status_code = 200
    THEN LET validated == AirQualityValidation(resp.body)
         IN  IF validated.kind = "raise"
             THEN MSG_UNAVAILABLE_INVALID_RESPONSE
             ELSE LET aqi_value == validated.value.kv["list"].xs[1].kv["main"].kv["aqi"]
                      aqi_level == AQILevelFromValue(aqi_value)
                  IN  IF aqi_level.kind = "raise"
                      THEN FormatInt(aqi_value) \o UnknownLabel
                      ELSE FormatInt(aqi_value) \o <<" ", "(">>
                           \o aqi_level.value.description \o <<")">>
    ELSE IF resp.status_code = 401 THEN MSG_UNAVAILABLE_API_KEY
    ELSE IF resp.status_code = 429 THEN MSG_UNAVAILABLE_RATE_LIMITED
    ELSE MSG_UNAVAILABLE_API_ERROR

\* the values sampled for list[0].main.aqi
AqiValues ==
    {PyNum(n) : n \in (1 - AqiMargin)..(5 + AqiMargin)}
        \cup {PyBool(TRUE), PyBool(FALSE), PyStr(<<"3">>), PosInf, PyNone}

\* {"list": [{"main": {"aqi": aqi}}]}
AqiDoc(aqi) == PyDict([list |-> PyList(<<PyDict([main |-> PyDict([aqi |-> aqi])])>>)])

\* the bodies an air-pollution response can carry
AqiBodies ==
    {AqiDoc(v) : v \in AqiValues}
        \cup {InvalidJson,
              PyList(<<>>),
              PyDict(EmptyKV),
              PyDict([list |-> PyDict(EmptyKV)]),
              PyDict([list |-> PyList(<<>>)]),
              PyDict([list |-> PyList(<<PyNum(3)>>)]),
              PyDict([list |-> PyList(<<PyDict(EmptyKV)>>)]),
              PyDict([list |-> PyList(<<PyDict([main |-> PyNum(3)])>>)]),
              PyDict([list |-> PyList(<<PyDict([main |-> PyDict(EmptyKV)])>>)])}

\* the HTTP status codes sampled
StatusCodes == {200, 401, 429, 404, 500}

\* what requests.get can do: raise, or return a response
AirResponses ==
    {[kind |-> k] : k \in {"Timeout", "ConnectionError", "RequestException"}}
        \cup {[kind |-> "response", status_code |-> c, body |-> b] :
                c \in StatusCodes, b \in AqiBodies}

InitAir ==
    /\ response \in AirResponses
    /\ text = PyNone
    /\ validator = "none"
    /\ first_result = PyNone
    /\ expanded_date = NotAsked
    /\ AppIdle
    /\ doc = NoDoc
    /\ outcome = NoOutcome
    /\ day = NoDay
    /\ forecast_list = <<>>
    /\ idx = 1
    /\ forecast_days = <<>>
    /\ skipped = {}
    /\ pc = "idle"
    /\ raised = "none"
    /\ result = <<>>

\* one call of get_air_quality; doc and outcome record the body handed to
\* validate_air_quality_response and what the validation did with it
GetAirQualityCall ==
    /\ pc = "idle"
    /\ response # NoResponse
    /\ text = PyNone
    /\ text' = PyStr(GetAirQuality(response))
    /\ IF response.kind = "response" /\ response.status_code = 200
       THEN /\ doc' = response.body
            /\ outcome' = AirQualityValidation(response.body)
            /\ validator' = "air_quality"
       ELSE UNCHANGED <<doc, outcome, validator>>
    /\ UNCHANGED <<aggVars, day, response, first_result, expanded_date, appVars>>

NextAir == GetAirQualityCall

SpecAir == InitAir /\ [][NextAir]_vars

\* the value at data["list"][0]["main"]["aqi"], None where the path is absent
AqiOf(body) ==
    LET l == Field(body, "list")
        item == IF l.t = "list" /\ l.xs # <<>> THEN l.xs[1] ELSE PyNone
    IN  Field(Field(item, "main"), "aqi")

EndsWith(s, suffix) ==
    /\ Len(suffix) <= Len(s)
    /\ SubSeq(s, Len(s) - Len(suffix) + 1, Len(s)) = suffix

\* C12: an integer aqi outside 1..5 makes validate_air_quality_response raise
\* ValueError, get_air_quality then answers "Unavailable (Invalid Response)",
\* and no answer of get_air_quality ends in " (Unknown)".
C12_OutOfRangeAqiRejected ==
    text # PyNone =>
        /\ ~EndsWith(text.s, UnknownLabel)
        /\ (validator = "air_quality" /\ AqiOf(doc).t \in {"int", "bool"}
              /\ AqiOf(doc).n \notin 1..5)
             => /\ outcome.kind = "raise"
                /\ outcome.exc = "ValueError"
                /\ text.s = <<"U", "n", "a", "v", "a", "i", "l", "a", "b", "l", "e", " ", "(", "I", "n", "v", "a", "l", "i", "d", " ", "R", "e", "s", "p", "o", "n", "s", "e", ")">>

C12_Witness ==
    /\ validator = "air_quality"
    /\ doc = AqiDoc(PyNum(6))
    /\ outcome = Raise("ValueError", "Invalid AQI value in response")
    /\ text = PyStr(MSG_UNAVAILABLE_INVALID_RESPONSE)

\* the label the air-quality scale gives each level
ScaleLabel(n) ==
    CASE n = 1 -> <<"G", "o", "o", "d">>
      [] n = 2 -> <<"F", "a", "i", "r">>
      [] n = 3 -> <<"M", "o", "d", "e", "r", "a", "t", "e">>
      [] n = 4 -> <<"P", "o", "o", "r">>
      [] n = 5 -> <<"V", "e", "r", "y", " ", "P", "o", "o", "r">>

\* C13: levels 1..5 are labelled Good, Fair, Moderate, Poor, Very Poor; the
\* AQILevel enum, config.AQI_LEVELS, AirQualityDetails.AQI_LEVELS and
\* AirQualityData.from_value give the same label, and the text returned by
\* get_air_quality for a level carries it.
C13_LevelsLabelledAlike ==
    /\ \A n \in 1..5 :
         /\ AQILevelFromValue(PyNum(n)).kind = "ok"
         /\ AQILevelFromValue(PyNum(n)).value.description = ScaleLabel(n)
         /\ ConfigAqiLevels[n] = ScaleLabel(n)
         /\ DetailsAqiLabels[n] = ScaleLabel(n)
         /\ AirQualityDataFromValue(PyNum(n)).value.description = ScaleLabel(n)
    /\ (text # PyNone /\ validator = "air_quality" /\ AqiOf(doc).t \in {"int", "bool"}
          /\ AqiOf(doc).n \in 1..5)
         => text.s = FormatInt(AqiOf(doc)) \o <<" ", "(">> \o ScaleLabel(AqiOf(doc).n) \o <<")">>

C13_Witness ==
    /\ doc = AqiDoc(PyNum(5))
    /\ text = PyStr(<<"5", " ", "(", "V", "e", "r", "y", " ", "P", "o", "o", "r", ")">>)

----------------------------------------------------------------------------
(* validate_current_weather_response and validate_forecast_response *)

\* a check of a string field that only looks whether the key is there
ValidateStringKeyPresenceOnly(d, key, key_path) == ValidateKeyExists(d, key, key_path)

\* the body of the loops over "description" and "icon": the key is present
\* and its value is a str
ValidateStringKey(d, key, key_path) ==
    IF key \notin DOMAIN d.kv
    THEN Raise("KeyError", "Missing required key: '" \o key_path \o "." \o key \o "'")
    ELSE IF ~IsStr(d.kv[key])
    THEN Raise("ValueError", "Expected '" \o key_path \o "." \o key \o "' to be string")
    ELSE Ok(TRUE)

\* the body of the loop over "temp" and "humidity"
ValidateMainKey(main, key) ==
    LET present == ValidateKeyExists(main, key, "main")
    IN  IF present.kind = "raise" THEN present
        ELSE IF ~IsNumber(main.kv[key])
        THEN Raise("ValueError", "Expected 'main." \o key \o "' to be number")
        ELSE Ok(TRUE)

\* validate_current_weather_response
ValidateCurrentWeatherResponse(data) ==
    LET isJson == ValidateJsonResponse(data)
    IN
    IF isJson.kind = "raise" THEN isJson
    ELSE LET hasMain == ValidateKeyExists(data, "main", "")
    IN
    IF hasMain.kind = "raise" THEN hasMain
    ELSE LET main == data.kv["main"]
    IN
    IF ~IsDict(main) THEN Raise("TypeError", "Expected 'main' to be dict")
    ELSE LET temp == ValidateMainKey(main, "temp")
             humidity == ValidateMainKey(main, "humidity")
    IN
    IF temp.kind = "raise" THEN temp
    ELSE IF humidity.kind = "raise" THEN humidity
    ELSE LET hasWeather == ValidateKeyExists(data, "weather", "")
    IN
    IF hasWeather.kind = "raise" THEN hasWeather
    ELSE LET weather == data.kv["weather"]
    IN
    IF weather.t # "list" THEN Raise("TypeError", "Expected 'weather' to be list")
    ELSE IF Len(weather.xs) = 0 THEN Raise("ValueError", "'weather' array is empty")
    ELSE LET weather_item == weather.xs[1]
    IN
    IF ~IsDict(weather_item) THEN Raise("TypeError", "Expected 'weather[0]' to be dict")
    ELSE LET description == ValidateStringKey(weather_item, "description", "weather[0]")
             icon == ValidateStringKey(weather_item, "icon", "weather[0]")
    IN
    IF description.kind = "raise" THEN description
    ELSE IF icon.kind = "raise" THEN icon
    ELSE LET hasWind == ValidateKeyExists(data, "wind", "")
    IN
    IF hasWind.kind = "raise" THEN hasWind
    ELSE LET wind == data.kv["wind"]
    IN
    IF ~IsDict(wind) THEN Raise("TypeError", "Expected 'wind' to be dict")
    ELSE LET hasSpeed == ValidateKeyExists(wind, "speed", "wind")
    IN
    IF hasSpeed.kind = "raise" THEN hasSpeed
    ELSE IF ~IsNumber(wind.kv["speed"])
    THEN Raise("ValueError", "Expected 'wind.speed' to be number")
    ELSE Ok(data)

\* the body of the loop over "dt_txt", "main" and "weather"
ValidateFirstItemKey(first_item, key) == ValidateKeyExists(first_item, key, "list[0]")

\* validate_forecast_response
ValidateForecastResponse(data) ==
    LET isJson == ValidateJsonResponse(data)
    IN
    IF isJson.kind = "raise" THEN isJson
    ELSE LET hasList == ValidateKeyExists(data, "list", "")
    IN
    IF hasList.kind = "raise" THEN hasList
    ELSE LET list == data.kv["list"]
    IN
    IF list.t # "list" THEN Raise("TypeError", "Expected 'list' to be list")
    ELSE IF Len(list.xs) = 0 THEN Raise("ValueError", "'list' array is empty")
    ELSE LET first_item == list.xs[1]
    IN
    IF ~IsDict(first_item) THEN Raise("TypeError", "Expected 'list[0]' to be dict")
    ELSE LET hasDt == ValidateFirstItemKey(first_item, "dt_txt")
             hasMain == ValidateFirstItemKey(first_item, "main")
             hasWeather == ValidateFirstItemKey(first_item, "weather")
    IN
    IF hasDt.kind = "raise" THEN hasDt
    ELSE IF hasMain.kind = "raise" THEN hasMain
    ELSE IF hasWeather.kind = "raise" THEN hasWeather
    ELSE IF ~IsStr(first_item.kv["dt_txt"])
    THEN Raise("ValueError", "Expected 'list[0].dt_txt' to be string")
    ELSE LET main == first_item.kv["main"]
    IN
    IF ~IsDict(main) THEN Raise("TypeError", "Expected 'list[0].main' to be dict")
    ELSE IF "temp" \notin DOMAIN main.kv
    THEN Raise("KeyError", "Missing required key: 'list[0].main.temp'")
    ELSE IF ~IsNumber(main.kv["temp"])
    THEN Raise("ValueError", "Expected 'list[0].main.temp' to be number")
    ELSE LET weather == first_item.kv["weather"]
    IN
    IF weather.t # "list" THEN Raise("TypeError", "Expected 'list[0].weather' to be list")
    ELSE IF Len(weather.xs) = 0 THEN Raise("ValueError", "'list[0].weather' array is empty")
    ELSE LET weather_item == weather.xs[1]
    IN
    IF ~IsDict(weather_item) THEN Raise("TypeError", "Expected 'list[0].weather[0]' to be dict")
    ELSE LET description == ValidateStringKey(weather_item, "description", "list[0].weather[0]")
             icon == ValidateStringKey(weather_item, "icon", "list[0].weather[0]")
    IN
    IF description.kind = "raise" THEN description
    ELSE IF icon.kind = "raise" THEN icon
    ELSE Ok(list)

----------------------------------------------------------------------------
(* The documents handed to the four validators *)

\* the mappings got from d by leaving out the keys of one subset of optional
Omitting(d, optional) ==
    {[k \in (DOMAIN d) \ drop |-> d[k]] : drop \in SUBSET optional}

\* the values sampled for "main" of a current-weather document
CurrentMains ==
    LET temps == {PyNum(20), PyBool(TRUE), PosInf, PyStr(<<"2", "0">>)}
        humidities == {PyNum(50), PyStr(<<"5", "0">>)}
    IN  {PyDict(kv) : kv \in UNION {Omitting([temp |-> t, humidity |-> h], {"temp", "humidity"}) :
                                      t \in temps, h \in humidities}}
        \cup {PyNum(20)}

\* the values sampled for "weather" of a current-weather document
CurrentWeathers ==
    LET descriptions == {PyStr(ClearSky), PyNum(800)}
        icons == {PyStr(Icon), PyNone}
    IN  {PyList(<<PyDict(kv)>>) :
            kv \in UNION {Omitting([description |-> d, icon |-> i], {"description", "icon"}) :
                            d \in descriptions, i \in icons}}
        \cup {PyList(<<>>), PyList(<<PyStr(ClearSky)>>), PyDict(EmptyKV)}

\* the values sampled for "wind" of a current-weather document
CurrentWinds ==
    {PyDict([speed |-> v]) : v \in {PyNum(3), PosInf, PyStr(<<"3">>), PyNone}}
        \cup {PyDict(EmptyKV), PyNum(3)}

CurrentDocs ==
    {PyDict(kv) : kv \in UNION {Omitting([main |-> m, weather |-> w, wind |-> v],
                                         {"main", "weather", "wind"}) :
                                  m \in CurrentMains, w \in CurrentWeathers, v \in CurrentWinds}}
        \cup {PyList(<<>>), PyNone}

\* forecast documents: lists of one or two entries, and the misshapen ones
ForecastDocs ==
    {PyDict([list |-> PyList(<<a>>)]) : a \in Entries}
        \cup {PyDict([list |-> PyList(<<a, b>>)]) : a \in Entries, b \in Entries}
        \cup {PyDict([list |-> PyList(<<With(Base, "weather", PyList(<<PyDict(kv)>>))>>)]) :
                kv \in {[description |-> PyStr(ClearSky)], [icon |-> PyStr(Icon)],
                        [description |-> PyStr(ClearSky), icon |-> PyNum(1)]}}
        \cup {PyDict([list |-> PyList(<<Without(Base, "main")>>)]),
              PyDict([list |-> PyList(<<Without(Base, "weather")>>)]),
              PyDict([list |-> PyList(<<>>)]),
              PyDict([list |-> PyDict(EmptyKV)]),
              PyDict(EmptyKV),
              PyList(<<>>)}

ValidatorDocs == CoordDocs \cup CurrentDocs \cup (AqiBodies \ {InvalidJson}) \cup ForecastDocs

InitValidators ==
    /\ doc \in ValidatorDocs
    /\ outcome = NoOutcome
    /\ day = NoDay
    /\ forecast_list = <<>>
    /\ idx = 1
    /\ forecast_days = <<>>
    /\ skipped = {}
    /\ pc = "idle"
    /\ raised = "none"
    /\ result = <<>>
    /\ RestIdle

\* validate_current_weather_response(doc)
ValidateCurrentWeather ==
    /\ pc = "idle"
    /\ outcome = NoOutcome
    /\ outcome' = ValidateCurrentWeatherResponse(doc)
    /\ validator' = "current_weather"
    /\ UNCHANGED <<aggVars, day, doc, restVars>>

\* validate_air_quality_response(doc)
ValidateAirQuality ==
    /\ pc = "idle"
    /\ outcome = NoOutcome
    /\ outcome' = ValidateAirQualityResponse(doc)
    /\ validator' = "air_quality"
    /\ UNCHANGED <<aggVars, day, doc, restVars>>

\* validate_forecast_response(doc)
ValidateForecast ==
    /\ pc = "idle"
    /\ outcome = NoOutcome
    /\ outcome' = ValidateForecastResponse(doc)
    /\ validator' = "forecast"
    /\ UNCHANGED <<aggVars, day, doc, restVars>>

NextValidators ==
    \/ ValidateCoordinates
    \/ ValidateCurrentWeather
    \/ ValidateAirQuality
    \/ ValidateForecast

SpecValidators == InitValidators /\ [][NextValidators]_vars

\* v is an int, a bool or a float
Numeric(v) == v.t \in {"int", "bool", "float"}

\* the shape the current-weather validator asks for
WellShapedCurrent(d) ==
    LET weather == Field(d, "weather")
        first == IF weather.t = "list" /\ weather.xs # <<>> THEN weather.xs[1] ELSE PyNone
    IN  /\ d.t = "dict"
        /\ Numeric(Field(Field(d, "main"), "temp"))
        /\ Numeric(Field(Field(d, "main"), "humidity"))
        /\ weather.t = "list" /\ weather.xs # <<>>
        /\ Field(first, "description").t = "str"
        /\ Field(first, "icon").t = "str"
        /\ Numeric(Field(Field(d, "wind"), "speed"))

\* C14: validate_current_weather_response succeeds exactly on an object with
\* numeric main.temp and main.humidity, a non-empty weather array whose first
\* element has string description and icon, and numeric wind.speed; otherwise
\* it raises; on success it returns the document it was given.
C14_CurrentWeatherAcceptedIffWellShaped ==
    validator = "current_weather" =>
        /\ outcome.kind \in {"ok", "raise"}
        /\ outcome.kind = "ok" <=> WellShapedCurrent(doc)
        /\ outcome.kind = "ok" => outcome.value = doc

C14_Witness ==
    /\ validator = "current_weather"
    /\ doc = PyDict([main |-> PyDict([temp |-> PyNum(20), humidity |-> PyNum(50)]),
                     weather |-> PyList(<<PyDict([description |-> PyStr(ClearSky),
                                                  icon |-> PyStr(Icon)])>>),
                     wind |-> PyDict([speed |-> PyNum(3)])])
    /\ outcome = Ok(doc)

----------------------------------------------------------------------------
(* validate_forecast_response followed by process_forecast_data *)

\* {"list": [...]} for every non-empty list of up to MaxLen entries
PipelineDocs == {PyDict([list |-> PyList(xs)]) : xs \in ListsUpTo(MaxLen) \ {<<>>}}

InitPipeline ==
    /\ doc \in PipelineDocs
    /\ outcome = NoOutcome
    /\ pc = "validate"
    /\ forecast_list = <<>>
    /\ idx = 1
    /\ forecast_days = <<>>
    /\ skipped = {}
    /\ raised = "none"
    /\ result = <<>>
    /\ day = NoDay
    /\ RestIdle

\* the document passes validate_forecast_response and the list it returns is
\* handed to process_forecast_data
ValidateAccepts ==
    /\ pc = "validate"
    /\ LET validated == ValidateForecastResponse(doc)
       IN  /\ validated.kind = "ok"
           /\ outcome' = validated
           /\ forecast_list' = validated.value.xs
    /\ validator' = "forecast"
    /\ pc' = "loop"
    /\ UNCHANGED <<idx, forecast_days, skipped, raised, result, day, doc, restVars>>

\* validate_forecast_response raises: nothing is aggregated
ValidateRejects ==
    /\ pc = "validate"
    /\ LET validated == ValidateForecastResponse(doc)
       IN  /\ validated.kind = "raise"
           /\ outcome' = validated
    /\ validator' = "forecast"
    /\ pc' = "rejected"
    /\ UNCHANGED <<forecast_list, idx, forecast_days, skipped, raised, result, day, doc, restVars>>

NextPipeline == ValidateAccepts \/ ValidateRejects \/ NextForecast

SpecPipeline == InitPipeline /\ [][NextPipeline]_vars

\* C15: a document whose first element is well-formed is accepted, its whole
\* list is returned unchanged, and aggregating that list does not raise: the
\* malformed elements after the first are skipped.
C15_MalformedRestSkippedAfterValidation ==
    (validator = "forecast" /\ doc.kv["list"].xs[1] \in WellFormedEntries) =>
        /\ outcome = Ok(doc.kv["list"])
        /\ pc # "raised"

\* the half of C15 about the validator alone
C15_FirstElementDecides ==
    validator = "forecast" =>
        /\ outcome.kind = "ok" => outcome.value = doc.kv["list"]
        /\ \A d \in PipelineDocs :
             d.kv["list"].xs[1] = doc.kv["list"].xs[1]
                => ValidateForecastResponse(d).kind = outcome.kind

----------------------------------------------------------------------------
(* The order of the checks *)

\* the first check, in the order given, that the coordinates document fails
FirstFailingCoordinateCheck(d) ==
    LET coord == Field(d, "coord")
        lat == Field(coord, "lat")
        lon == Field(coord, "lon")
    IN  CASE d.t # "dict" -> Raise("ValueError", "Expected dict response")
          [] d.t = "dict" /\ "coord" \notin DOMAIN d.kv ->
                Raise("KeyError", "Missing required key: 'coord'")
          [] OTHER ->
             CASE coord.t # "dict" -> Raise("TypeError", "Expected 'coord' to be dict")
               [] coord.t = "dict" /\ "lat" \notin DOMAIN coord.kv ->
                     Raise("KeyError", "Missing required key: 'coord.lat'")
               [] OTHER ->
                  IF ~Numeric(lat) THEN Raise("ValueError", "Expected 'coord.lat' to be number")
                  ELSE IF NumberOutside(lat, -90, 90) THEN Raise("ValueError", "Latitude out of range")
                  ELSE IF "lon" \notin DOMAIN coord.kv
                  THEN Raise("KeyError", "Missing required key: 'coord.lon'")
                  ELSE IF ~Numeric(lon) THEN Raise("ValueError", "Expected 'coord.lon' to be number")
                  ELSE IF NumberOutside(lon, -180, 180) THEN Raise("ValueError", "Longitude out of range")
                  ELSE Ok(coord)

\* the first check that the air-quality document fails: object, list present,
\* list an array, not empty, list[0] an object, main present, main an object,
\* aqi present, aqi an integer, aqi one of 1..5
FirstFailingAirQualityCheck(d) ==
    LET l == Field(d, "list")
        item == IF l.t = "list" /\ l.xs # <<>> THEN l.xs[1] ELSE PyNone
        main == Field(item, "main")
        aqi == Field(main, "aqi")
    IN  CASE d.t # "dict" -> Raise("ValueError", "Expected dict response")
          [] d.t = "dict" /\ "list" \notin DOMAIN d.kv ->
                Raise("KeyError", "Missing required key: 'list'")
          [] OTHER ->
             IF l.t # "list" THEN Raise("TypeError", "Expected 'list' to be list")
             ELSE IF l.xs = <<>> THEN Raise("ValueError", "'list' array is empty")
             ELSE IF item.t # "dict" THEN Raise("TypeError", "Expected 'list[0]' to be dict")
             ELSE IF "main" \notin DOMAIN item.kv
             THEN Raise("KeyError", "Missing required key: 'list[0].main'")
             ELSE IF main.t # "dict" THEN Raise("TypeError", "Expected 'list[0].main' to be dict")
             ELSE IF "aqi" \notin DOMAIN main.kv
             THEN Raise("KeyError", "Missing required key: 'list[0].main.aqi'")
             ELSE IF aqi.t \notin {"int", "bool"}
             THEN Raise("ValueError", "Expected 'list[0].main.aqi' to be integer")
             ELSE IF aqi.n \notin 1..5 THEN Raise("ValueError", "Invalid AQI value in response")
             ELSE Ok(d)

\* C16: a validator reports one error, that of the first check that fails in
\* its order; for validate_coordinates_response the order is object, coord
\* present, coord an object, lat present, lat numeric, lat in range, lon
\* present, lon numeric, lon in range.
C16_FirstFailingCheckReported ==
    /\ validator = "coordinates" => outcome = FirstFailingCoordinateCheck(doc)
    /\ validator = "air_quality" => outcome = FirstFailingAirQualityCheck(doc)

C16_Witness ==
    /\ validator = "coordinates"
    /\ doc = PyDict([coord |-> PyDict([lat |-> PyNum(91)])])
    /\ outcome = Raise("ValueError", "Latitude out of range")

----------------------------------------------------------------------------
(* The kinds of validation error *)

\* the validator named v applied to d
RunValidator(v, d) ==
    CASE v = "coordinates" -> ValidateCoordinatesResponse(d)
      [] v = "current_weather" -> ValidateCurrentWeatherResponse(d)
      [] v = "air_quality" -> ValidateAirQualityResponse(d)
      [] v = "forecast" -> ValidateForecastResponse(d)

\* the messages of the raise statements that report an empty required array
EmptyCollectionMessages ==
    {"'weather' array is empty", "'list' array is empty", "'list[0].weather' array is empty"}

\* the messages of the raise statements that report a number outside its domain
OutOfRangeMessages ==
    {"Latitude out of range", "Longitude out of range", "Invalid AQI value in response"}

\* what the raise statement behind an error outcome reports: a missing key,
\* an empty array, a value outside its domain, or else a value of the wrong type
ErrorKind(o) ==
    IF o.exc = "KeyError" THEN "MissingField"
    ELSE IF o.msg \in EmptyCollectionMessages THEN "EmptyCollection"
    ELSE IF o.msg \in OutOfRangeMessages THEN "OutOfRange"
    ELSE "WrongType"

\* C17: errors of two different kinds (MissingField, WrongType, OutOfRange,
\* EmptyCollection) raised by the same validator are exceptions of different
\* classes, so that the caller can tell the kinds apart.
C17_ErrorKindsHaveDistinctExceptions ==
    (validator # "none" /\ outcome.kind = "raise") =>
        \A d \in ValidatorDocs :
            LET other == RunValidator(validator, d)
            IN  (other.kind = "raise" /\ ErrorKind(other) # ErrorKind(outcome))
                    => other.exc # outcome.exc

----------------------------------------------------------------------------
(* ForecastDay.get_summary *)

\* the character U+00B0 (degree sign), as one element of a str
Degree == "deg"

\* f"{value}" for a recorded temperature
FormatTemp(value) ==
    IF value = PosInf THEN <<"i", "n", "f">>
    ELSE IF value = NegInf THEN <<"-", "i", "n", "f">>
    ELSE FormatInt(value)

\* sep.join(strs)
RECURSIVE Join(_, _)
Join(sep, strs) ==
    IF strs = <<>> THEN <<>>
    ELSE IF Len(strs) = 1 THEN strs[1]
    ELSE strs[1] \o sep \o Join(sep, Tail(strs))

\* the orders in which iterating over set(xs) can yield its elements
SetOrders(xs) ==
    LET elems == Range(xs)
        n == Cardinality(elems)
    IN  {p \in [1..n -> elems] : \A i, j \in 1..n : i # j => p[i] # p[j]}

\* a get_summary that does not look at the sentinel
GetSummaryNoSentinelCheck(d) ==
    {d.date \o <<":", " ">> \o FormatTemp(d.min_temp) \o <<Degree, "-">>
         \o FormatTemp(d.max_temp) \o <<Degree, " ", "|", " ">> \o Join(<<",", " ">>, order) :
       order \in SetOrders(d.conditions)}

\* ForecastDay.get_summary: the strings it can return; the order of the
\* conditions is that of iterating over a set of str
GetSummary(d) ==
    IF d.min_temp = PosInf
    THEN {d.date \o <<":", " ", "N", "o", " ", "d", "a", "t", "a">>}
    ELSE {d.date \o <<":", " ">> \o FormatTemp(d.min_temp) \o <<Degree, "-">>
              \o FormatTemp(d.max_temp) \o <<Degree, " ", "|", " ">> \o Join(<<",", " ">>, order) :
            order \in SetOrders(d.conditions)}

\* add_hourly on a day whose summary has not been asked for yet
AddHourlyBeforeSummary ==
    /\ text = PyNone
    /\ AddHourlyCall

\* text = day.get_summary()
GetSummaryCall ==
    /\ pc = "idle"
    /\ text = PyNone
    /\ \E summary \in GetSummary(day) : text' = PyStr(summary)
    /\ UNCHANGED <<aggVars, day, doc, outcome, validator, response, first_result, expanded_date,
                   appVars>>

NextSummary == AddHourlyBeforeSummary \/ GetSummaryCall

SpecSummary == InitDay /\ [][NextSummary]_vars

\* the least and the greatest of a non-empty set of integers
Least(S) == CHOOSE x \in S : \A y \in S : x <= y
Greatest(S) == CHOOSE x \in S : \A y \in S : y <= x

\* the summaries the claim allows for the records of the day: the date, the
\* range of the recorded temperatures and each recorded condition once
SummariesOfRecords(date, records) ==
    LET temps == {records[i].temp.n : i \in 1..Len(records)}
        conds == {records[i].condition : i \in 1..Len(records)}
        n == Cardinality(conds)
    IN  {date \o <<":", " ">> \o IntToStr(Least(temps)) \o <<Degree, "-">>
              \o IntToStr(Greatest(temps)) \o <<Degree>> \o <<" ", "|", " ">> \o Join(<<",", " ">>, order) :
            order \in {p \in [1..n -> conds] : \A c \in conds : \E i \in 1..n : p[i] = c}}

C18_WitnessNoData ==
    /\ day.hourly_data = <<>>
    /\ text = PyStr(Date20240101 \o <<":", " ", "N", "o", " ", "d", "a", "t", "a">>)

----------------------------------------------------------------------------
(* ForecastDay.get_details and create_forecast_view *)

\* characters outside ASCII, each written as one element of a str
Calendar == "calendar U+1F4C5"
AlarmClock == "alarm clock U+23F0"
Thermometer == "thermometer U+1F321"
VariationSelector == "variation selector U+FE0F"
Droplet == "droplet U+1F4A7"
DashingAway == "dashing away U+1F4A8"
BarChart == "bar chart U+1F4CA"
Newline == "\n"

\* '=' * 50
Rule == [i \in 1..50 |-> "="]

\* f"{value}"
FormatValue(value) ==
    CASE value.t \in {"int", "bool"} -> FormatInt(value)
      [] value.t = "float" -> FormatTemp(value)
      [] value.t = "str" -> value.s
      [] value.t = "NoneType" -> <<"N", "o", "n", "e">>

\* f"{value:.1f}"
Format1f(value) ==
    CASE value.t \in {"int", "bool"} -> Ok(IntToStr(value.n) \o <<".", "0">>)
      [] value.t = "float" -> Ok(FormatTemp(value))
      [] value.t = "str" -> Raise("ValueError", "Unknown format code 'f' for object of type 'str'")
      [] OTHER -> Raise("TypeError", "unsupported format string")

\* the text get_details adds for one hourly record
HourDetails(hour) ==
    LET wind == Format1f(hour.wind)
    IN  IF wind.kind = "raise" THEN wind
        ELSE Ok(<<AlarmClock, " ">> \o hour.time \o <<" ", "|", " ">>
                \o <<Thermometer, VariationSelector, " ">> \o FormatValue(hour.temp)
                \o <<Degree>> \o <<" ", "|", " ">>
                \o <<Droplet, " ">> \o FormatValue(hour.humidity) \o <<"%", " ", "|", " ">>
                \o <<DashingAway, " ">> \o wind.value \o <<Newline>>
                \o <<" ", " ", " ", "C", "o", "n", "d", "i", "t", "i", "o", "n", ":", " ">> \o hour.condition \o <<Newline, Newline>>)

\* the loop of get_details over hourly_data[i..]
RECURSIVE DetailsFrom(_, _, _)
DetailsFrom(hourly_data, i, details) ==
    IF i > Len(hourly_data) THEN Ok(details)
    ELSE LET hour == HourDetails(hourly_data[i])
         IN  IF hour.kind = "raise" THEN hour
             ELSE DetailsFrom(hourly_data, i + 1, details \o hour.value)

\* ForecastDay.get_details
GetDetails(d) ==
    IF d.hourly_data = <<>>
    THEN Ok(<<"N", "o", " ", "h", "o", "u", "r", "l", "y", " ", "d", "a", "t", "a", " ", "f", "o", "r", " ">> \o d.date)
    ELSE DetailsFrom(d.hourly_data, 1,
                     <<Newline>> \o Rule \o <<Newline, Calendar, " ">> \o d.date
                         \o <<Newline>> \o Rule \o <<Newline>>)

\* bool(value) for a str or None
Truthy(value) == value.t = "str" /\ value.s # <<>>

\* the texts the summary loop can build from days[i..]
RECURSIVE SummaryTexts(_, _, _)
SummaryTexts(days, i, forecast_text) ==
    IF i > Len(days) THEN {forecast_text}
    ELSE UNION {SummaryTexts(days, i + 1,
                             forecast_text \o <<"[", "D", "a", "y", " ">> \o IntToStr(i) \o <<"]", " ">>
                                 \o summary \o <<Newline>>) :
                  summary \in GetSummary(days[i])}

\* create_forecast_view: what it can return or raise
CreateForecastView(days, date) ==
    IF days = <<>> THEN {Ok(<<"N", "o", " ", "f", "o", "r", "e", "c", "a", "s", "t", " ", "d", "a", "t", "a", " ", "a", "v", "a", "i", "l", "a", "b", "l", "e">>)}
    ELSE IF Truthy(date)
    THEN LET hits == {i \in 1..Len(days) : days[i].date = date.s}
         IN  IF hits # {}
             THEN {GetDetails(days[CHOOSE i \in hits : \A j \in hits : i <= j])}
             ELSE {Ok(<<"N", "o", " ", "d", "a", "t", "a", " ", "f", "o", "r", " ">> \o date.s)}
    ELSE {Ok(x) : x \in SummaryTexts(days, 1,
                     <<Newline, BarChart>> \o <<" ", "5", "-", "D", "A", "Y", " ", "F", "O", "R", "E", "C", "A", "S", "T", " ", "S", "U", "M", "M", "A", "R", "Y", ":">> \o <<Newline>>
                         \o <<"C", "l", "i", "c", "k", " ", "o", "n", " ", "a", " ", "d", "a", "y", " ", "t", "o", " ", "s", "e", "e", " ", "h", "o", "u", "r", "l", "y", " ", "d", "e", "t", "a", "i", "l", "s">> \o <<Newline, Newline>>)}

Date20240103 == <<"2", "0", "2", "4", "-", "0", "1", "-", "0", "3">>

\* an entry whose wind speed is a str
WindSpeedStrEntry ==
    With(Entry(Date20240102, Time0300, 15, ClearSky), "wind", PyDict([speed |-> PyStr(<<"3">>)]))

\* the entries of the lists that are aggregated and then viewed
ViewEntries ==
    WellFormedEntries \cup {WindSpeedStrEntry, Without(Base, "dt_txt"), PyStr(ClearSky)}

RECURSIVE ViewListsUpTo(_)
ViewListsUpTo(n) ==
    IF n = 0 THEN {<<>>}
    ELSE LET shorter == ViewListsUpTo(n - 1)
         IN  shorter \cup {Append(l, e) : l \in {x \in shorter : Len(x) = n - 1},
                                          e \in ViewEntries}

\* the values given as expanded_date
RequestedDates ==
    {PyStr(Date20240101), PyStr(Date20240102), PyStr(Date20240103), PyStr(<<>>), PyNone}

InitView ==
    /\ forecast_list \in ViewListsUpTo(MaxLen)
    /\ idx = 1
    /\ forecast_days = <<>>
    /\ skipped = {}
    /\ pc = "loop"
    /\ raised = "none"
    /\ result = <<>>
    /\ day = NoDay
    /\ doc = NoDoc
    /\ outcome = NoOutcome
    /\ RestIdle

\* create_forecast_view(result, date), result being what process_forecast_data returned
CreateForecastViewCall ==
    /\ pc = "done"
    /\ \E date \in RequestedDates :
         \E view \in CreateForecastView(result, date) :
            /\ expanded_date' = date
            /\ IF view.kind = "ok"
               THEN /\ text' = PyStr(view.value)
                    /\ pc' = "viewed"
                    /\ UNCHANGED raised
               ELSE /\ raised' = view.exc
                    /\ pc' = "view raised"
                    /\ UNCHANGED text
    /\ UNCHANGED <<forecast_list, idx, forecast_days, skipped, result, day, doc, outcome,
                   validator, response, first_result, appVars>>

NextView == NextForecast \/ CreateForecastViewCall

SpecView == InitView /\ [][NextView]_vars

\* the lines the claim expects for one hourly record of the day
RecordLines(r) ==
    <<AlarmClock, " ">> \o r.time \o <<" ", "|", " ">> \o <<Thermometer, VariationSelector, " ">>
        \o IntToStr(r.temp.n) \o <<Degree>> \o <<" ", "|", " ">> \o <<Droplet, " ">>
        \o IntToStr(r.humidity.n) \o <<"%", " ", "|", " ">> \o <<DashingAway, " ">>
        \o (IF r.wind.t = "int" THEN IntToStr(r.wind.n) \o <<".", "0">> ELSE <<"?">>) \o <<Newline>>
        \o <<" ", " ", " ", "C", "o", "n", "d", "i", "t", "i", "o", "n", ":", " ">> \o r.condition \o <<Newline, Newline>>

\* the details the claim expects for a day: the heading with the date, then
\* the lines of every hourly record in the order of hourly_data
DetailsOfDay(d) ==
    <<Newline>> \o Rule \o <<Newline, Calendar, " ">> \o d.date \o <<Newline>> \o Rule
        \o <<Newline>>
        \o Join(<<>>, [i \in 1..Len(d.hourly_data) |-> RecordLines(d.hourly_data[i])])

\* C19: for a requested date that is not among the aggregated days
\* create_forecast_view returns "No data for <date>" and does not raise; for a
\* date that is among them it returns the details of that day, every hourly
\* record in input order.
C19_ViewOfRequestedDate ==
    (expanded_date # NotAsked /\ expanded_date.t = "str" /\ expanded_date.s # <<>>) =>
        LET present == {i \in 1..Len(result) : result[i].date = expanded_date.s}
        IN  /\ pc = "viewed"
            /\ present = {} => text.s = <<"N", "o", " ", "d", "a", "t", "a", " ", "f", "o", "r", " ">> \o expanded_date.s
            /\ \A i \in present : text.s = DetailsOfDay(result[i])

----------------------------------------------------------------------------
(* process_forecast_data called twice on the same list *)

\* a forecast_days dict that outlives the call
DaysKeptFromLastCall(last) == last

\* forecast_days = {} at the start of a call, whatever the last call left
DaysAtEntry(last) == <<>>

\* process_forecast_data(forecast_list, ...) is called again after it returned
CallAgain ==
    /\ pc = "done"
    /\ first_result = PyNone
    /\ first_result' = PyList(result)
    /\ forecast_days' = DaysAtEntry(forecast_days)
    /\ idx' = 1
    /\ skipped' = {}
    /\ result' = <<>>
    /\ pc' = "loop"
    /\ UNCHANGED <<forecast_list, raised, day, doc, outcome, validator, text, response,
                   expanded_date, appVars>>

NextTwice == NextForecast \/ CallAgain

SpecTwice == InitForecast /\ [][NextTwice]_vars

----------------------------------------------------------------------------
(* SearchHistory: recent searches and favourites *)

\* MAX_HISTORY
MAX_HISTORY == 10

\* how many distinct cities are searched, and how many searches repeat a city
\* of the recent list
MaxCities == 11
MaxRepeats == 1

\* the cities that can be made favourites
FavoriteCities == {1, 2}

\* xs.remove(x): xs without the first x
ListRemove(xs, x) ==
    LET at == CHOOSE i \in 1..Len(xs) : xs[i] = x /\ \A j \in 1..(i - 1) : xs[j] # x
    IN  SubSeq(xs, 1, at - 1) \o SubSeq(xs, at + 1, Len(xs))

\* xs[:n]
Take(xs, n) == SubSeq(xs, 1, IF Len(xs) < n THEN Len(xs) ELSE n)

\* an add_recent that does not take the city out of the list first
AddRecentNoRemove(h, city) == [h EXCEPT !.recent = Take(<<city>> \o @, MAX_HISTORY)]

\* SearchHistory.add_recent
AddRecent(h, city) ==
    LET recent == h.recent
        removed == IF InSeq(city, recent) THEN ListRemove(recent, city) ELSE recent
        inserted == <<city>> \o removed
    IN  [h EXCEPT !.recent = Take(inserted, MAX_HISTORY)]

\* SearchHistory.add_favorite
AddFavorite(h, city) ==
    IF ~InSeq(city, h.favorites) THEN [h EXCEPT !.favorites = Append(@, city)] ELSE h

\* SearchHistory.remove_favorite
RemoveFavorite(h, city) ==
    IF InSeq(city, h.favorites) THEN [h EXCEPT !.favorites = ListRemove(@, city)] ELSE h

\* SearchHistory.clear_history
ClearHistory(h) == [recent |-> <<>>, favorites |-> <<>>]

\* the variables SearchHistory does not touch
notHistory ==
    <<aggVars, day, doc, outcome, validator, text, response, first_result, expanded_date,
      weatherVars, comparisonVars, dialogVars, uiVars>>

\* add_recent(city). Cities are numbered; the code only compares them. A city
\* that is not in the list is the next number not used before, one that is in
\* the list can be any of them.
AddRecentCall ==
    /\ \E city \in 1..MaxCities :
         /\ \/ /\ InSeq(city, history_data.recent)
               /\ history_budget.repeats < MaxRepeats
               /\ history_budget' = [history_budget EXCEPT !.repeats = @ + 1]
            \/ /\ city = history_budget.cities + 1
               /\ history_budget' = [history_budget EXCEPT !.cities = city]
         /\ history_data' = AddRecent(history_data, city)
         /\ history_call' = [op |-> "add_recent", city |-> city]
    /\ UNCHANGED notHistory

AddFavoriteCall ==
    /\ \E city \in FavoriteCities :
         /\ history_data' = AddFavorite(history_data, city)
         /\ history_call' = [op |-> "add_favorite", city |-> city]
    /\ UNCHANGED <<notHistory, history_budget>>

RemoveFavoriteCall ==
    /\ \E city \in FavoriteCities :
         /\ history_data' = RemoveFavorite(history_data, city)
         /\ history_call' = [op |-> "remove_favorite", city |-> city]
    /\ UNCHANGED <<notHistory, history_budget>>

ClearHistoryCall ==
    /\ history_data' = ClearHistory(history_data)
    /\ history_call' = [op |-> "clear_history"]
    /\ UNCHANGED <<notHistory, history_budget>>

InitHistory ==
    /\ forecast_list = <<>>
    /\ idx = 1
    /\ forecast_days = <<>>
    /\ skipped = {}
    /\ pc = "idle"
    /\ raised = "none"
    /\ result = <<>>
    /\ day = NoDay
    /\ doc = NoDoc
    /\ outcome = NoOutcome
    /\ RestIdle

NextHistory == AddRecentCall \/ AddFavoriteCall \/ RemoveFavoriteCall \/ ClearHistoryCall

SpecHistory == InitHistory /\ [][NextHistory]_vars

\* xs holds no element twice
NoDuplicates(xs) == \A i, j \in 1..Len(xs) : i # j => xs[i] # xs[j]

\* xs with every x left out
Others(xs, x) == SelectSeq(xs, LAMBDA y : y # x)

\* C21: after every call the recent list has no duplicate, holds at most 10
\* cities and is ordered most recent first: add_recent puts its city at index
\* 0 and leaves the other cities behind it in their order, the oldest dropped
\* beyond 10; a city already in the list is moved without growing the list;
\* the favourite calls leave the list alone and clear_history empties it.
C21_RecentListBoundedDistinctNewestFirst ==
    [][LET before == history_data.recent
           after == history_data'.recent
           call == history_call'
       IN  /\ NoDuplicates(after)
           /\ Len(after) <= 10
           /\ call.op = "add_recent" =>
                /\ after[1] = call.city
                /\ Tail(after) = SubSeq(Others(before, call.city), 1, Len(after) - 1)
                /\ InSeq(call.city, before) => Len(after) = Len(before)
                /\ ~InSeq(call.city, before) =>
                       Len(after) = (IF Len(before) < 10 THEN Len(before) + 1 ELSE 10)
           /\ call.op \in {"add_favorite", "remove_favorite"} => after = before
           /\ call.op = "clear_history" => after = <<>>]_vars

C21_Witness ==
    /\ history_call = [op |-> "add_recent", city |-> 5]
    /\ history_budget = [cities |-> 11, repeats |-> 1]
    /\ Len(history_data.recent) = 10
    /\ history_data.recent[1] = 5
    /\ history_data.recent[2] = 11

----------------------------------------------------------------------------
(* WeatherHistory: the records kept per city *)

\* the number of add_record calls: one more than the 30 records kept, and one
\* for the other city
MaxRecords == 32

\* the counts of earlier add_record calls at which the other city gets a
\* record, at which a city is cleared, and at which get_history is called
OtherCityTicks == {0, 1, 31}
ClearTicks == {2, 31, 32}
QueryTicks == {0, 2, 32}

\* the cities with a weather history; city 1 is the one that fills up
WeatherCities == {1, 2}

\* the limits given to get_history
Limits == {0, 1, 2, 10, 30, 31}

\* xs[start:] for an int start (negative: counted from the end)
SliceFrom(xs, start) ==
    LET from == IF start < 0
                THEN (IF Len(xs) + start < 0 THEN 0 ELSE Len(xs) + start)
                ELSE (IF start > Len(xs) THEN Len(xs) ELSE start)
    IN  SubSeq(xs, from + 1, Len(xs))

\* an add_record that keeps the first 30 records
AddRecordKeepOldest(history, city, timestamp, temp, condition) ==
    LET appended == (IF city \in DOMAIN history THEN history[city] ELSE <<>>)
                        \o <<[timestamp |-> timestamp, temp |-> temp, condition |-> condition]>>
    IN  [c \in DOMAIN history \cup {city} |->
            IF c = city THEN Take(appended, 30) ELSE history[c]]

\* WeatherHistory.add_record; timestamp is what datetime.now() gives
AddRecord(history, city, timestamp, temp, condition) ==
    LET started == IF city \notin DOMAIN history
                   THEN [c \in DOMAIN history \cup {city} |->
                            IF c = city THEN <<>> ELSE history[c]]
                   ELSE history
        appended == [started EXCEPT ![city] =
                        Append(@, [timestamp |-> timestamp, temp |-> temp,
                                   condition |-> condition])]
    IN  IF Len(appended[city]) > 30
        THEN [appended EXCEPT ![city] = SliceFrom(@, -30)]
        ELSE appended

\* WeatherHistory.get_history
GetHistory(history, city, limit) ==
    IF city \notin DOMAIN history THEN <<>>
    ELSE SliceFrom(history[city], -limit)

\* WeatherHistory.clear_city_history
ClearCityHistory(history, city) ==
    IF city \in DOMAIN history
    THEN [c \in DOMAIN history \ {city} |-> history[c]]
    ELSE history

\* the records of city, none for a city without history
RecordsOf(history, city) == IF city \in DOMAIN history THEN history[city] ELSE <<>>

\* the variables WeatherHistory does not touch
notWeather ==
    <<aggVars, day, doc, outcome, validator, text, response, first_result, expanded_date,
      historyVars, comparisonVars, dialogVars, uiVars>>

\* add_record(city, 10, "Clear Sky") at the next tick of the clock
AddRecordCall ==
    /\ weather_clock < MaxRecords
    /\ \E city \in WeatherCities :
         /\ city = 2 => weather_clock \in OtherCityTicks
         /\ weather_history' = AddRecord(weather_history, city, weather_clock + 1,
                                         PyNum(10), Title(ClearSky))
         /\ weather_call' = [op |-> "add_record", city |-> city]
    /\ weather_clock' = weather_clock + 1
    /\ UNCHANGED notWeather

\* clear_city_history(city)
ClearCityHistoryCall ==
    /\ weather_clock \in ClearTicks
    /\ \E city \in WeatherCities :
         /\ weather_history' = ClearCityHistory(weather_history, city)
         /\ weather_call' = [op |-> "clear_city_history", city |-> city]
    /\ UNCHANGED <<notWeather, weather_clock>>

\* get_history(city, limit)
GetHistoryCall ==
    /\ weather_clock \in QueryTicks
    /\ \E city \in WeatherCities, limit \in Limits :
         weather_call' = [op |-> "get_history", city |-> city, limit |-> limit,
                          returned |-> GetHistory(weather_history, city, limit)]
    /\ UNCHANGED <<notWeather, weather_history, weather_clock>>

NextWeatherHistory == AddRecordCall \/ ClearCityHistoryCall \/ GetHistoryCall

\* InitHistory is the state of the freshly constructed objects
SpecWeatherHistory == InitHistory /\ [][NextWeatherHistory]_vars

\* the last n elements of xs, all of xs when it has fewer
LastN(xs, n) == IF Len(xs) <= n THEN xs ELSE SubSeq(xs, Len(xs) - n + 1, Len(xs))

\* C22: every city holds at most 30 records, in the order they were added;
\* add_record leaves the city with the last 30 of its old records followed by
\* the new one; an add and clear_city_history leave the other cities' records
\* as they were.
C22_Last30RecordsPerCity ==
    [][LET before == weather_history
           after == weather_history'
           call == weather_call'
       IN  /\ \A c \in DOMAIN after :
                /\ Len(after[c]) <= 30
                /\ \A i, j \in 1..Len(after[c]) :
                      i < j => after[c][i].timestamp < after[c][j].timestamp
           /\ call.op = "add_record" =>
                /\ call.city \in DOMAIN after
                /\ after[call.city][Len(after[call.city])].timestamp = weather_clock'
                /\ after[call.city] =
                      LastN(RecordsOf(before, call.city) \o <<after[call.city][Len(after[call.city])]>>, 30)
           /\ call.op = "clear_city_history" => call.city \notin DOMAIN after
           /\ call.op \in {"add_record", "clear_city_history"} =>
                \A c \in WeatherCities \ {call.city} :
                    /\ c \in DOMAIN after <=> c \in DOMAIN before
                    /\ RecordsOf(after, c) = RecordsOf(before, c)]_vars

C22_Witness ==
    /\ weather_call = [op |-> "add_record", city |-> 1]
    /\ 2 \in DOMAIN weather_history
    /\ Len(weather_history[1]) = 30
    /\ weather_history[1][1].timestamp = 3
    /\ weather_history[1][30].timestamp = 32

\* C23: get_history(city, limit) with limit >= 0 returns at most limit
\* records, the most recent ones in the order they were added, and no record
\* for a city without history.
C23_GetHistoryAtMostLimitNewest ==
    weather_call.op = "get_history" =>
        LET records == RecordsOf(weather_history, weather_call.city)
        IN  /\ Len(weather_call.returned) <= weather_call.limit
            /\ weather_call.returned = LastN(records, weather_call.limit)

----------------------------------------------------------------------------
(* WeatherComparison: the cities compared *)

\* the cities given to add_city and remove_city
ComparedCities == {1, 2}

\* a Python tuple
PyTuple(xs) == [t |-> "tuple", xs |-> xs]

\* what get_coordinates can do: (lat, lon), (None, None), or raise
CoordinateFetches ==
    {[kind |-> "ok", lat |-> PyNum(51), lon |-> PyNum(0)],
     [kind |-> "ok", lat |-> PyNone, lon |-> PyNone],
     [kind |-> "raise"]}

\* what get_current_weather can do: the 5-tuple, None, or raise
WeatherFetches ==
    {[kind |-> "ok",
      value |-> PyTuple(<<PyNum(20), PyStr(Title(ClearSky)), PyNum(50), PyNum(3), PyStr(Icon)>>)],
     [kind |-> "ok", value |-> PyNone],
     [kind |-> "raise"]}

\* what get_air_quality can do
AirQualityFetches ==
    {[kind |-> "ok", value |-> PyStr(<<"2", " ", "(", "F", "a", "i", "r", ")">>)],
     [kind |-> "ok", value |-> PyStr(MSG_UNAVAILABLE_TIMEOUT)],
     [kind |-> "raise"]}

\* the dict add_city appends
CityData(city, coords, weather, air_quality) ==
    [city |-> city, temp |-> weather.xs[1], condition |-> weather.xs[2],
     humidity |-> weather.xs[3], wind_speed |-> weather.xs[4], icon_code |-> weather.xs[5],
     air_quality |-> air_quality,
     lat |-> coords.lat, lon |-> coords.lon]

\* whether get_coordinates found the city
Found(coords) == coords.kind = "ok" /\ coords.lat # PyNone /\ coords.lon # PyNone

\* whether get_current_weather gave the tuple
Fetched(weather) == weather.kind = "ok" /\ weather.value # PyNone

\* an add_city whose limit test is > 3
AddCityLimitOffByOne(data, city, coords, weather, air) ==
    IF Len(data) > 3 THEN [cities_data |-> data, returned |-> FALSE, fetched |-> <<>>]
    ELSE IF Found(coords) /\ Fetched(weather) /\ air.kind = "ok"
    THEN [cities_data |-> Append(data, CityData(city, coords, weather.value, air.value)),
          returned |-> TRUE,
          fetched |-> <<"get_coordinates", "get_current_weather", "get_air_quality">>]
    ELSE [cities_data |-> data, returned |-> FALSE, fetched |-> <<"get_coordinates">>]

\* WeatherComparison.add_city, given what the three fetches do: the new
\* cities_data, the value returned and the fetches made
AddCity(data, city, coords, weather, air) ==
    IF Len(data) >= 3
    THEN [cities_data |-> data, returned |-> FALSE, fetched |-> <<>>]
    ELSE IF ~Found(coords)
    THEN [cities_data |-> data, returned |-> FALSE, fetched |-> <<"get_coordinates">>]
    ELSE IF ~Fetched(weather)
    THEN [cities_data |-> data, returned |-> FALSE,
          fetched |-> <<"get_coordinates", "get_current_weather">>]
    ELSE IF air.kind = "raise"
    THEN [cities_data |-> data, returned |-> FALSE,
          fetched |-> <<"get_coordinates", "get_current_weather", "get_air_quality">>]
    ELSE [cities_data |-> Append(data, CityData(city, coords, weather.value, air.value)),
          returned |-> TRUE,
          fetched |-> <<"get_coordinates", "get_current_weather", "get_air_quality">>]

\* WeatherComparison.remove_city
RemoveCity(data, city) == SelectSeq(data, LAMBDA c : c.city # city)

\* the variables WeatherComparison does not touch
notComparison ==
    <<aggVars, day, doc, outcome, validator, text, response, first_result, expanded_date,
      historyVars, weatherVars, dialogVars, uiVars>>

\* add_city(city)
AddCityCall ==
    /\ \E city \in ComparedCities, coords \in CoordinateFetches, weather \in WeatherFetches,
          air \in AirQualityFetches :
         LET r == AddCity(cities_data, city, coords, weather, air)
         IN  /\ cities_data' = r.cities_data
             /\ comparison_call' = [op |-> "add_city", city |-> city,
                                    returned |-> r.returned, fetched |-> r.fetched]
    /\ UNCHANGED notComparison

\* remove_city(city)
RemoveCityCall ==
    /\ \E city \in ComparedCities :
         /\ cities_data' = RemoveCity(cities_data, city)
         /\ comparison_call' = [op |-> "remove_city", city |-> city]
    /\ UNCHANGED notComparison

\* clear()
ClearComparisonCall ==
    /\ cities_data' = <<>>
    /\ comparison_call' = [op |-> "clear"]
    /\ UNCHANGED notComparison

NextComparison == AddCityCall \/ RemoveCityCall \/ ClearComparisonCall

SpecComparison == InitHistory /\ [][NextComparison]_vars

\* C24: cities_data never holds more than 3 cities; add_city on a comparison
\* that holds 3 returns False and fetches nothing; an add_city that returns
\* False leaves cities_data as it was.
C24_AtMostThreeCitiesCompared ==
    [][LET before == cities_data
           after == cities_data'
           call == comparison_call'
       IN  /\ Len(after) <= 3
           /\ call.op = "add_city" =>
                /\ Len(before) >= 3 => (~call.returned /\ call.fetched = <<>>)
                /\ ~call.returned => after = before
                /\ call.returned =>
                     /\ Len(after) = Len(before) + 1
                     /\ SubSeq(after, 1, Len(before)) = before
                     /\ after[Len(after)].city = call.city]_vars

C24_Witness ==
    /\ Len(cities_data) = 3
    /\ comparison_call = [op |-> "add_city", city |-> 2, returned |-> FALSE, fetched |-> <<>>]

----------------------------------------------------------------------------
(* get_air_quality: one answer per kind of failure *)

\* the exceptions the inner except clause of get_air_quality catches
CaughtWhileParsing == {"KeyError", "TypeError", "ValueError"}

\* a body {"list": [{"main": {"aqi": n}}, ...]} with n an int from 1 to 5
ValidAqiBody(body) == AqiOf(body).t \in {"int", "bool"} /\ AqiOf(body).n \in 1..5

\* C25: get_air_quality answers every response with a str, and the str tells
\* the case: "<aqi> (<description>)" for status 200 with a valid document,
\* the Invalid Response message for 200 with an invalid one, the API Key
\* message for 401, Rate Limited for 429, API Error for any other status, and
\* Timeout, No Connection and Network Error for the three request failures;
\* what the validation raises is always caught.
C25_AirQualityAnswerTellsTheCase ==
    text # PyNone =>
        /\ text.t = "str"
        /\ outcome # NoOutcome /\ outcome.kind = "raise" => outcome.exc \in CaughtWhileParsing
        /\ text.s =
             (CASE response.kind = "Timeout" -> <<"U", "n", "a", "v", "a", "i", "l", "a", "b", "l", "e", " ", "(", "T", "i", "m", "e", "o", "u", "t", ")">>
                [] response.kind = "ConnectionError" -> <<"U", "n", "a", "v", "a", "i", "l", "a", "b", "l", "e", " ", "(", "N", "o", " ", "C", "o", "n", "n", "e", "c", "t", "i", "o", "n", ")">>
                [] response.kind = "RequestException" -> <<"U", "n", "a", "v", "a", "i", "l", "a", "b", "l", "e", " ", "(", "N", "e", "t", "w", "o", "r", "k", " ", "E", "r", "r", "o", "r", ")">>
                [] response.kind = "response" /\ response.status_code = 200
                     /\ ValidAqiBody(response.body)
                     -> FormatInt(AqiOf(response.body)) \o <<" ", "(">>
                        \o ScaleLabel(AqiOf(response.body).n) \o <<")">>
                [] response.kind = "response" /\ response.status_code = 200
                     /\ ~ValidAqiBody(response.body)
                     -> <<"U", "n", "a", "v", "a", "i", "l", "a", "b", "l", "e", " ", "(", "I", "n", "v", "a", "l", "i", "d", " ", "R", "e", "s", "p", "o", "n", "s", "e", ")">>
                [] response.kind = "response" /\ response.status_code = 401
                     -> <<"U", "n", "a", "v", "a", "i", "l", "a", "b", "l", "e", " ", "(", "A", "P", "I", " ", "K", "e", "y", " ", "I", "s", "s", "u", "e", ")">>
                [] response.kind = "response" /\ response.status_code = 429
                     -> <<"U", "n", "a", "v", "a", "i", "l", "a", "b", "l", "e", " ", "(", "R", "a", "t", "e", " ", "L", "i", "m", "i", "t", "e", "d", ")">>
                [] response.kind = "response" /\ response.status_code \notin {200, 401, 429}
                     -> <<"U", "n", "a", "v", "a", "i", "l", "a", "b", "l", "e", " ", "(", "A", "P", "I", " ", "E", "r", "r", "o", "r", ")">>)

C25_Witness ==
    /\ response.kind = "response"
    /\ response.status_code = 429
    /\ text = PyStr(<<"U", "n", "a", "v", "a", "i", "l", "a", "b", "l", "e", " ", "(", "R", "a", "t", "e", " ", "L", "i", "m", "i", "t", "e", "d", ")">>)

----------------------------------------------------------------------------
(* show_air_quality_dialog: the level taken from the stored string *)

\* s.split(): cut at whitespace, no empty pieces
SplitWhitespace(s) == SelectSeq(Split(s), LAMBDA piece : piece # <<>>)

RECURSIVE DigitsToNat(_)
DigitsToNat(s) ==
    IF s = <<>> THEN 0
    ELSE 10 * DigitsToNat(SubSeq(s, 1, Len(s) - 1)) + (IndexOf(s[Len(s)], Digits) - 1)

AllDigits(s) == s # <<>> /\ \A i \in 1..Len(s) : InSeq(s[i], Digits)

\* int(s) for a str without whitespace: an optional sign, then digits
PyInt(s) ==
    IF AllDigits(s) THEN Ok(DigitsToNat(s))
    ELSE IF s # <<>> /\ s[1] = "-" /\ AllDigits(Tail(s)) THEN Ok(0 - DigitsToNat(Tail(s)))
    ELSE IF s # <<>> /\ s[1] = "+" /\ AllDigits(Tail(s)) THEN Ok(DigitsToNat(Tail(s)))
    ELSE Raise("ValueError", "invalid literal for int() with base 10")

\* the try block of show_air_quality_dialog: int(air_quality_str.split()[-1]),
\* 2 when that raises ValueError or IndexError
ExtractAqiLevel(air_quality_str) ==
    LET pieces == SplitWhitespace(air_quality_str)
    IN  IF pieces = <<>> THEN 2
        ELSE LET parsed == PyInt(pieces[Len(pieces)])
             IN  IF parsed.kind = "raise" THEN 2 ELSE parsed.value

\* AirQualityDetails.get_aqi_info(aqi_level)["label"]
GetAqiInfoLabel(aqi_level) ==
    IF aqi_level \in DOMAIN DetailsAqiLabels THEN DetailsAqiLabels[aqi_level]
    ELSE <<"U", "n", "k", "n", "o", "w", "n">>

\* show_air_quality_dialog(); text is last_weather_data["air_quality"], the
\* str the last get_air_quality returned
ShowAirQualityDialog ==
    /\ pc = "idle"
    /\ report = NoCall
    /\ IF text = PyNone
       THEN report' = [op |-> "showinfo"]
       ELSE LET aqi_level == ExtractAqiLevel(text.s)
            IN  report' = [op |-> "get_detailed_report", aqi_level |-> aqi_level,
                           label |-> GetAqiInfoLabel(aqi_level)]
    /\ UNCHANGED <<aggVars, day, doc, outcome, validator, text, response, first_result,
                   expanded_date, historyVars, weatherVars, comparisonVars, uiVars>>

NextDialog == GetAirQualityCall \/ ShowAirQualityDialog

SpecDialog == InitAir /\ [][NextDialog]_vars

\* C26: when the stored air-quality string is "<n> (<description>)" with n
\* from 1 to 5, show_air_quality_dialog asks get_detailed_report for level n.
C26_ReportForFetchedLevel ==
    \A n \in 1..5 :
        (/\ report.op = "get_detailed_report"
         /\ text.s = IntToStr(n) \o <<" ", "(">> \o ScaleLabel(n) \o <<")">>)
            => /\ report.aqi_level = n
               /\ report.label = ScaleLabel(n)

----------------------------------------------------------------------------
(* get_5_day_forecast: the text made of every eighth entry *)

INTERVALS_PER_FORECAST == 40
HOURS_PER_INTERVAL == 8

\* longest forecast list in a response
MaxEntries == 41

TEMP_UNIT_METRIC == <<"C", "e", "l", "s", "i", "u", "s">>
TEMP_UNIT_IMPERIAL == <<"F", "a", "h", "r", "e", "n", "h", "e", "i", "t">>

MSG_FORECAST_UNAVAILABLE_TIMEOUT == <<"F", "o", "r", "e", "c", "a", "s", "t", " ", "u", "n", "a", "v", "a", "i", "l", "a", "b", "l", "e", " ", "(", "T", "i", "m", "e", "o", "u", "t", ")">>
MSG_FORECAST_UNAVAILABLE_NO_CONNECTION == <<"F", "o", "r", "e", "c", "a", "s", "t", " ", "u", "n", "a", "v", "a", "i", "l", "a", "b", "l", "e", " ", "(", "N", "o", " ", "C", "o", "n", "n", "e", "c", "t", "i", "o", "n", ")">>
MSG_FORECAST_UNAVAILABLE_NETWORK_ERROR == <<"F", "o", "r", "e", "c", "a", "s", "t", " ", "u", "n", "a", "v", "a", "i", "l", "a", "b", "l", "e", " ", "(", "N", "e", "t", "w", "o", "r", "k", " ", "E", "r", "r", "o", "r", ")">>
MSG_FORECAST_UNAVAILABLE_INVALID_RESPONSE == <<"F", "o", "r", "e", "c", "a", "s", "t", " ", "u", "n", "a", "v", "a", "i", "l", "a", "b", "l", "e", " ", "(", "I", "n", "v", "a", "l", "i", "d", " ", "R", "e", "s", "p", "o", "n", "s", "e", ")">>
MSG_FORECAST_UNAVAILABLE_API_KEY == <<"F", "o", "r", "e", "c", "a", "s", "t", " ", "u", "n", "a", "v", "a", "i", "l", "a", "b", "l", "e", " ", "(", "A", "P", "I", " ", "K", "e", "y", " ", "I", "s", "s", "u", "e", ")">>
MSG_FORECAST_UNAVAILABLE_RATE_LIMITED == <<"F", "o", "r", "e", "c", "a", "s", "t", " ", "u", "n", "a", "v", "a", "i", "l", "a", "b", "l", "e", " ", "(", "R", "a", "t", "e", " ", "L", "i", "m", "i", "t", "e", "d", ")">>
MSG_FORECAST_UNAVAILABLE_API_ERROR == <<"F", "o", "r", "e", "c", "a", "s", "t", " ", "u", "n", "a", "v", "a", "i", "l", "a", "b", "l", "e", " ", "(", "A", "P", "I", " ", "E", "r", "r", "o", "r", ")">>
MSG_FORECAST_UNAVAILABLE_PARSE_ERROR == <<"F", "o", "r", "e", "c", "a", "s", "t", " ", "u", "n", "a", "v", "a", "i", "l", "a", "b", "l", "e", " ", "(", "P", "a", "r", "s", "e", " ", "E", "r", "r", "o", "r", ")">>

\* the exceptions the except clause inside the for loop catches
CaughtPerEntry == {"KeyError", "IndexError", "TypeError", "ValueError"}

\* the body of the try block inside the for loop: the line of one entry, or
\* the exception its evaluation raises
ForecastLine(entry, temp_unit) ==
    IF ~IsDict(entry) THEN Raise("TypeError", "indices must be integers")
    ELSE IF "dt_txt" \notin DOMAIN entry.kv THEN Raise("KeyError", "dt_txt")
    ELSE IF ~IsStr(entry.kv["dt_txt"]) THEN Raise("AttributeError", "split")
    ELSE IF "main" \notin DOMAIN entry.kv THEN Raise("KeyError", "main")
    ELSE IF ~IsDict(entry.kv["main"]) THEN Raise("TypeError", "indices must be integers")
    ELSE IF "temp" \notin DOMAIN entry.kv["main"].kv THEN Raise("KeyError", "temp")
    ELSE IF "weather" \notin DOMAIN entry.kv THEN Raise("KeyError", "weather")
    ELSE LET first == Index0(entry.kv["weather"])
         IN  IF first.exc # "none" THEN Raise(first.exc, "weather[0]")
             ELSE IF ~IsDict(first.val) THEN Raise("TypeError", "indices must be integers")
             ELSE IF "description" \notin DOMAIN first.val.kv
             THEN Raise("KeyError", "description")
             ELSE IF ~IsStr(first.val.kv["description"]) THEN Raise("AttributeError", "title")
             ELSE LET date == Split(entry.kv["dt_txt"].s)[1]
                      temp == entry.kv["main"].kv["temp"]
                      condition == Title(first.val.kv["description"].s)
                  IN  Ok(date \o <<":", " ">> \o condition \o <<",", " ">>
                         \o FormatValue(temp) \o <<" ">> \o temp_unit \o <<Newline>>)

\* the for loop from index i (0-based) up to stop: the lines appended to
\* forecast_text, or the exception that leaves the loop
RECURSIVE ForecastLinesFrom(_, _, _, _)
ForecastLinesFrom(entries, i, stop, temp_unit) ==
    IF i >= stop THEN Ok(<<>>)
    ELSE LET line == ForecastLine(entries[i + 1], temp_unit)
         IN  IF line.kind = "raise" /\ line.exc \notin CaughtPerEntry THEN line
             ELSE LET rest == ForecastLinesFrom(entries, i + HOURS_PER_INTERVAL,
                                                stop, temp_unit)
                  IN  IF rest.kind = "raise" \/ line.kind = "raise" THEN rest
                      ELSE Ok(line.value \o rest.value)

\* forecast_text.strip() == ""
IsBlank(s) == \A i \in 1..Len(s) : s[i] \in {" ", Newline}

\* response.json(), then validate_forecast_response
ForecastValidation(body) ==
    IF body = InvalidJson THEN Raise("ValueError", "JSONDecodeError")
    ELSE ValidateForecastResponse(body)

\* get_5_day_forecast, given what requests.get did: Ok(the str returned), or
\* the exception that leaves the function
GetFiveDayForecast(resp, units) ==
    IF resp.kind = "Timeout" THEN Ok(MSG_FORECAST_UNAVAILABLE_TIMEOUT)
    ELSE IF resp.kind = "ConnectionError" THEN Ok(MSG_FORECAST_UNAVAILABLE_NO_CONNECTION)
    ELSE IF resp.kind = "RequestException" THEN Ok(MSG_FORECAST_UNAVAILABLE_NETWORK_ERROR)
    ELSE IF resp.status_code = 200
    THEN LET validated == ForecastValidation(resp.body)
         IN  IF validated.kind = "raise"
             THEN IF validated.exc \in {"ValueError", "KeyError", "TypeError"}
                  THEN Ok(MSG_FORECAST_UNAVAILABLE_INVALID_RESPONSE)
                  ELSE validated
             ELSE LET entries == validated.value.xs
                      temp_unit == IF units = "metric" THEN TEMP_UNIT_METRIC
                                   ELSE TEMP_UNIT_IMPERIAL
                      stop == IF INTERVALS_PER_FORECAST < Len(entries)
                              THEN INTERVALS_PER_FORECAST ELSE Len(entries)
                      lines == ForecastLinesFrom(entries, 0, stop, temp_unit)
                  IN  IF lines.kind = "raise" THEN lines
                      ELSE LET forecast_text == <<Newline>> \o lines.value
                           IN  IF IsBlank(forecast_text)
                               THEN Ok(MSG_FORECAST_UNAVAILABLE_PARSE_ERROR)
                               ELSE Ok(forecast_text)
    ELSE IF resp.status_code = 401 THEN Ok(MSG_FORECAST_UNAVAILABLE_API_KEY)
    ELSE IF resp.status_code = 429 THEN Ok(MSG_FORECAST_UNAVAILABLE_RATE_LIMITED)
    ELSE Ok(MSG_FORECAST_UNAVAILABLE_API_ERROR)

\* 2024-01-0d
DayDate(d) == <<"2", "0", "2", "4", "-", "0", "1", "-", "0", Digits[d + 1]>>

\* the well-formed entry at index i (0-based) of a response: eight entries a day
DayEntry(i) == Entry(DayDate(1 + (i \div HOURS_PER_INTERVAL)), Time0000, 10, ClearSky)

\* the lengths of the sampled forecast lists
ForecastLengths == {1, 9, 33, MaxEntries}

\* the positions (1-based) where a sampled list has a malformed entry
MalformedPositions == {1, 2, 9, 17, 25, 33, 41}

\* the forecast lists sampled: n well-formed entries, at most one of them
\* replaced by a malformed one
ForecastLists ==
    {[i \in 1..n |-> DayEntry(i - 1)] : n \in ForecastLengths}
        \cup UNION {{[i \in 1..n |-> IF i = p THEN e ELSE DayEntry(i - 1)] :
                        p \in {q \in MalformedPositions : q <= n}, e \in MalformedEntries} :
                    n \in ForecastLengths}

\* what requests.get can give get_5_day_forecast
ForecastResponses ==
    {[kind |-> k] : k \in {"Timeout", "ConnectionError", "RequestException"}}
        \cup {[kind |-> "response", status_code |-> 200, body |-> PyDict([list |-> PyList(l)])] :
                l \in ForecastLists}
        \cup {[kind |-> "response", status_code |-> c, body |-> b] :
                c \in StatusCodes, b \in {InvalidJson, PyDict([list |-> PyList(<<>>)])}}

InitForecastText ==
    /\ response \in ForecastResponses
    /\ text = PyNone
    /\ validator = "none"
    /\ first_result = PyNone
    /\ expanded_date = NotAsked
    /\ AppIdle
    /\ doc = NoDoc
    /\ outcome = NoOutcome
    /\ day = NoDay
    /\ forecast_list = <<>>
    /\ idx = 1
    /\ forecast_days = <<>>
    /\ skipped = {}
    /\ pc = "idle"
    /\ raised = "none"
    /\ result = <<>>

\* one call of get_5_day_forecast; doc and outcome record the body handed to
\* validate_forecast_response and what the validation did with it
GetFiveDayForecastCall ==
    /\ pc = "idle"
    /\ text = PyNone
    /\ raised = "none"
    /\ \E units \in {"metric", "imperial"} :
         LET r == GetFiveDayForecast(response, units)
         IN  IF r.kind = "raise"
             THEN /\ raised' = r.exc
                  /\ text' = text
             ELSE /\ text' = PyStr(r.value)
                  /\ raised' = raised
    /\ IF response.kind = "response" /\ response.status_code = 200
       THEN /\ doc' = response.body
            /\ outcome' = ForecastValidation(response.body)
            /\ validator' = "forecast"
       ELSE UNCHANGED <<doc, outcome, validator>>
    /\ UNCHANGED <<forecast_list, idx, forecast_days, skipped, pc, result, day, response,
                   first_result, expanded_date, appVars>>

SpecForecastText == InitForecastText /\ [][GetFiveDayForecastCall]_vars

\* s.split("\n") without the empty pieces
RECURSIVE SplitLines(_)
SplitLines(s) ==
    IF s = <<>> THEN <<>>
    ELSE IF ~InSeq(Newline, s) THEN <<s>>
    ELSE LET i == CHOOSE j \in 1..Len(s) :
                      s[j] = Newline /\ \A k \in 1..(j - 1) : s[k] # Newline
             rest == SplitLines(SubSeq(s, i + 1, Len(s)))
         IN  IF i = 1 THEN rest ELSE <<SubSeq(s, 1, i - 1)>> \o rest

\* the lines of the entries at the given indices (0-based) that exist in the
\* list and can be rendered, with the unit the text ends in
RECURSIVE LinesAt(_, _, _)
LinesAt(list, indices, temp_unit) ==
    IF indices = <<>> THEN <<>>
    ELSE LET i == Head(indices)
             rest == LinesAt(list, Tail(indices), temp_unit)
         IN  IF i + 1 > Len(list) THEN rest
             ELSE LET line == ForecastLine(list[i + 1], temp_unit)
                  IN  IF line.kind = "raise" THEN rest
                      ELSE <<SubSeq(line.value, 1, Len(line.value) - 1)>> \o rest

\* the call of get_5_day_forecast on an accepted document is over
ForecastAcceptedAndDone ==
    /\ validator = "forecast"
    /\ outcome.kind = "ok"
    /\ (text # PyNone \/ raised # "none")

\* the text returned is made of the lines of list entries 0, 8, 16, 24, 32
ForecastTextFromEveryEighth ==
    LET lines == SplitLines(text.s)
        list == doc.kv["list"].xs
    IN  /\ text.s # <<"F", "o", "r", "e", "c", "a", "s", "t", " ", "u", "n", "a", "v", "a", "i", "l", "a", "b", "l", "e", " ", "(", "P", "a", "r", "s", "e", " ", "E", "r", "r", "o", "r", ")">>
        /\ Len(lines) \in 1..5
        /\ \E temp_unit \in {<<"C", "e", "l", "s", "i", "u", "s">>, <<"F", "a", "h", "r", "e", "n", "h", "e", "i", "t">>} :
             /\ lines = LinesAt(list, <<0, 8, 16, 24, 32>>, temp_unit)
             /\ lines[1] = SubSeq(ForecastLine(list[1], temp_unit).value, 1,
                                  Len(ForecastLine(list[1], temp_unit).value) - 1)

\* C29: when validate_forecast_response accepts the document,
\* get_5_day_forecast returns a text, never the Parse Error message: a line
\* for entry 0 and at most 5 lines in all, those of entries 0, 8, 16, 24 and
\* 32 that exist; an entry among them that cannot be rendered is left out
\* and the call still returns.
C29_AcceptedForecastRendered ==
    ForecastAcceptedAndDone => (raised = "none" /\ ForecastTextFromEveryEighth)

\* what holds of the calls that return: the text is made of every eighth entry
ReturnedForecastTextFromEveryEighth ==
    (ForecastAcceptedAndDone /\ raised = "none") => ForecastTextFromEveryEighth

----------------------------------------------------------------------------
(* show_weather: the callback of the Get Weather button, one step per call
   it waits for *)

MIN_CITY_NAME_LENGTH == 2
MAX_CITY_NAME_LENGTH == 100

\* most show_weather invocations in a run
MaxInvocations == 3

Fetching == <<"F", "e", "t", "c", "h", "i", "n", "g", ".", ".", ".">>

IsAlpha(c) == IsCased(c)

\* validate_city_input(city)[0]
ValidateCityInput(city) ==
    LET letter_count == Cardinality({i \in 1..Len(city) : IsAlpha(city[i])})
    IN  IF city = <<>> \/ \A i \in 1..Len(city) : city[i] = " " THEN FALSE
        ELSE IF Len(city) < MIN_CITY_NAME_LENGTH THEN FALSE
        ELSE IF Len(city) > MAX_CITY_NAME_LENGTH THEN FALSE
        ELSE IF \E i \in 1..Len(city) :
                  ~(IsAlpha(city[i]) \/ InSeq(city[i], Digits)
                      \/ city[i] \in {" ", "-", "'", ",", "."})
        THEN FALSE
        ELSE IF letter_count = 0 THEN FALSE
        ELSE IF 2 * letter_count < Len(city) THEN FALSE
        ELSE TRUE

\* what the user typed, outer whitespace stripped
CityInputs == {<<>>, <<"R">>, <<"1", "2">>, <<"R", "o", "m", "e">>, <<"O", "s", "l", "o">>, <<"R", "o", "m", "e", "!">>}

\* process_forecast_data(forecast_list, units): Ok(the sorted days), or the
\* exception the loop does not catch
RECURSIVE ProcessFrom(_, _)
ProcessFrom(days, entries) ==
    IF entries = <<>> THEN Ok(SortedByDate(days))
    ELSE LET r == LoopBody(days, Head(entries))
         IN  IF r.exc \in Caught \cup {"none"} THEN ProcessFrom(r.days, Tail(entries))
             ELSE Raise(r.exc, "process_forecast_data")

ProcessForecastData(entries) == ProcessFrom(<<>>, entries)

\* a get_5_day_forecast that hands the validated list on
ForecastRawStructured(resp, units) ==
    IF resp.kind = "response" /\ resp.status_code = 200
          /\ ForecastValidation(resp.body).kind = "ok"
    THEN Ok(ForecastValidation(resp.body).value)
    ELSE Ok(PyStr(MSG_FORECAST_UNAVAILABLE_INVALID_RESPONSE))

\* forecast_raw = get_5_day_forecast(city, units): Ok(the value), or the
\* exception that leaves the call
ForecastRaw(resp, units) ==
    LET r == GetFiveDayForecast(resp, units)
    IN  IF r.kind = "raise" THEN r ELSE Ok(PyStr(r.value))

\* what the forecast API gives show_weather
UiForecastResponses ==
    {[kind |-> "Timeout"],
     [kind |-> "response", status_code |-> 401, body |-> InvalidJson],
     [kind |-> "response", status_code |-> 200, body |-> InvalidJson],
     [kind |-> "response", status_code |-> 200,
      body |-> PyDict([list |-> PyList([i \in 1..9 |-> DayEntry(i - 1)])])],
     [kind |-> "response", status_code |-> 200,
      body |-> PyDict([list |-> PyList([i \in 1..9 |->
                  IF i = 9 THEN With(Base, "dt_txt", PyNum(20240101)) ELSE DayEntry(i - 1)])])]}

\* what get_air_quality gives show_weather
UiAirQualities == {<<"2", " ", "(", "F", "a", "i", "r", ")">>, MSG_UNAVAILABLE_TIMEOUT}

\* loading_label.configure(text=""); get_weather_button.configure(state="normal")
ClearLoading ==
    /\ loading_label' = <<>>
    /\ get_weather_button' = "normal"

\* the invocation ends on the given path
Ended(path) ==
    /\ pc' = "idle"
    /\ show_weather_call' = [show_weather_call EXCEPT !.path = path]

notShowWeather ==
    <<forecast_list, idx, forecast_days, skipped, raised, result, day, doc, outcome,
      validator, text, response, first_result, expanded_date, history_call, history_budget,
      weather_call, comparisonVars, dialogVars>>

\* the click: the loading indicator is shown and the button disabled
ShowWeatherStart ==
    /\ pc = "idle"
    /\ get_weather_button = "normal"
    /\ show_weather_call.invocations < MaxInvocations
    /\ loading_label' = Fetching
    /\ get_weather_button' = "disabled"
    /\ \E city \in CityInputs, units \in {"metric", "imperial"} :
         show_weather_call' = [invocations |-> show_weather_call.invocations + 1,
                               path |-> "running", city |-> city, units |-> units,
                               coords |-> PyNone, weather |-> PyNone, branch |-> "none"]
    /\ pc' = "show: validate_city_input"
    /\ UNCHANGED <<notShowWeather, history_data, weather_history, weather_clock,
                   forecast_data, last_weather_data>>

\* validate_city_input(city)
ValidateInput ==
    /\ pc = "show: validate_city_input"
    /\ IF ValidateCityInput(show_weather_call.city)
       THEN /\ pc' = "show: get_coordinates"
            /\ UNCHANGED <<loading_label, get_weather_button, show_weather_call>>
       ELSE /\ ClearLoading
            /\ Ended("invalid city input")
    /\ UNCHANGED <<notShowWeather, history_data, weather_history, weather_clock,
                   forecast_data, last_weather_data>>

\* lat, lon = get_coordinates(city)
FetchCoordinates ==
    /\ pc = "show: get_coordinates"
    /\ \E coords \in CoordinateFetches :
         IF coords.kind = "raise"
         THEN ClearLoading /\ Ended("coordinate fetch failure")
         ELSE IF coords.lat = PyNone \/ coords.lon = PyNone
         THEN ClearLoading /\ Ended("city not found")
         ELSE /\ pc' = "show: get_current_weather"
              /\ show_weather_call' = [show_weather_call EXCEPT !.coords = coords]
              /\ UNCHANGED <<loading_label, get_weather_button>>
    /\ UNCHANGED <<notShowWeather, history_data, weather_history, weather_clock,
                   forecast_data, last_weather_data>>

\* weather = get_current_weather(city, units)
FetchWeather ==
    /\ pc = "show: get_current_weather"
    /\ \E weather \in WeatherFetches :
         IF weather.kind = "raise"
         THEN ClearLoading /\ Ended("weather fetch failure")
         ELSE IF weather.value = PyNone
         THEN \* the else branch of "if weather:": result_label and icon_label only
              /\ Ended("no weather data")
              /\ UNCHANGED <<loading_label, get_weather_button>>
         ELSE /\ pc' = "show: get_5_day_forecast"
              /\ show_weather_call' = [show_weather_call EXCEPT !.weather = weather.value]
              /\ UNCHANGED <<loading_label, get_weather_button>>
    /\ UNCHANGED <<notShowWeather, history_data, weather_history, weather_clock,
                   forecast_data, last_weather_data>>

\* get_air_quality, get_5_day_forecast, last_weather_data, add_record and
\* the branch on the type of forecast_raw
FetchForecast ==
    /\ pc = "show: get_5_day_forecast"
    /\ \E air_quality \in UiAirQualities, resp \in UiForecastResponses :
         LET call == show_weather_call
             forecast_raw == ForecastRaw(resp, call.units)
         IN  IF forecast_raw.kind = "raise"
             THEN /\ ClearLoading
                  /\ Ended("unexpected exception")
                  /\ UNCHANGED <<weather_history, weather_clock, forecast_data,
                                 last_weather_data>>
             ELSE /\ last_weather_data' =
                        [city |-> call.city, temp |-> call.weather.xs[1],
                         condition |-> call.weather.xs[2], humidity |-> call.weather.xs[3],
                         wind_speed |-> call.weather.xs[4], air_quality |-> PyStr(air_quality),
                         forecast |-> forecast_raw.value, units |-> call.units,
                         lat |-> call.coords.lat, lon |-> call.coords.lon]
                  /\ weather_history' = AddRecord(weather_history, call.city, weather_clock + 1,
                                                  call.weather.xs[1], call.weather.xs[2].s)
                  /\ weather_clock' = weather_clock + 1
                  /\ IF forecast_raw.value.t = "str"
                     THEN /\ forecast_data' = <<>>
                          /\ show_weather_call' = [call EXCEPT !.branch = "str"]
                     ELSE LET processed ==
                                  ProcessForecastData(IF forecast_raw.value.t = "list"
                                                      THEN forecast_raw.value.xs ELSE <<>>)
                          IN  /\ forecast_data' = IF processed.kind = "raise" THEN <<>>
                                                  ELSE processed.value
                              /\ show_weather_call' =
                                     [call EXCEPT !.branch = "process_forecast_data"]
                  /\ pc' = "show: display_weather_with_unit"
                  /\ UNCHANGED <<loading_label, get_weather_button>>
    /\ UNCHANGED <<notShowWeather, history_data>>

\* display_weather_with_unit(...), which may raise, then the indicator is
\* cleared and the button enabled
Display ==
    /\ pc = "show: display_weather_with_unit"
    /\ ClearLoading
    /\ \E displayed \in BOOLEAN :
         IF displayed
         THEN /\ pc' = "show: add_recent"
              /\ UNCHANGED show_weather_call
         ELSE Ended("unexpected exception")
    /\ UNCHANGED <<notShowWeather, history_data, weather_history, weather_clock,
                   forecast_data, last_weather_data>>

\* search_history.add_recent(city), the favourite button and the icon, whose
\* exceptions are all caught
RecordSearch ==
    /\ pc = "show: add_recent"
    /\ history_data' = AddRecent(history_data, show_weather_call.city)
    /\ Ended("success")
    /\ UNCHANGED <<notShowWeather, weather_history, weather_clock, forecast_data,
                   last_weather_data, loading_label, get_weather_button>>

\* the steps of a running invocation
ShowWeatherStep ==
    ValidateInput \/ FetchCoordinates \/ FetchWeather \/ FetchForecast \/ Display
        \/ RecordSearch

NextShowWeather == ShowWeatherStart \/ ShowWeatherStep

\* a started invocation runs on: the callback is synchronous and every fetch
\* it waits for ends, by an answer or by the timeout of API_TIMEOUT seconds
SpecShowWeather == InitHistory /\ [][NextShowWeather]_vars /\ WF_vars(ShowWeatherStep)

\* C27: an invocation of show_weather that disabled the button and showed
\* the loading indicator ends with the button enabled and the indicator
\* cleared.
C27_ButtonEnabledAgain ==
    (get_weather_button = "disabled" /\ loading_label = Fetching)
        ~> (pc = "idle" /\ get_weather_button = "normal" /\ loading_label = <<>>)

\* what holds instead: an invocation that has ended left the button enabled
\* and the indicator cleared unless get_current_weather returned None
EnabledAgainUnlessNoWeatherData ==
    pc = "idle" =>
        \/ get_weather_button = "normal" /\ loading_label = <<>>
        \/ show_weather_call.path = "no weather data"

\* C28: what get_5_day_forecast returns to show_weather is a str, the branch
\* calling process_forecast_data is never taken and forecast_data is always
\* the empty list.
C28_ForecastDataStaysEmpty ==
    /\ forecast_data = <<>>
    /\ show_weather_call.invocations > 0 =>
           show_weather_call.branch \in {"none", "str"}
    /\ last_weather_data # PyNone => last_weather_data.forecast.t = "str"

C28_Witness ==
    /\ pc = "idle"
    /\ show_weather_call.path = "success"
    /\ show_weather_call.branch = "str"
    /\ last_weather_data # PyNone
    /\ Len(SplitLines(last_weather_data.forecast.s)) = 2
    /\ forecast_data = <<>>

====
